---- MODULE Spec2Model ----
(***************************************************************************)
(* Seminar / workshop manager: the registration lifecycle over the five    *)
(* tables of server/src/db/schema.ts and the handlers that mutate them.    *)
(*                                                                         *)
(* A table is the set of its rows. A row keeps the columns that a handler  *)
(* reads, compares, converts or writes selectively: users.email, the one   *)
(* column the store keeps unique, and seminars.cost, a nullable numeric    *)
(* column the handlers write as text and give back as a number or null.    *)
(* The free-text payload columns (name, password, title, description,      *)
(* date, time, location) are copied through by the handlers that write and *)
(* never read by them, so they are not carried; where a listing returns    *)
(* one, Column names it by its row. Ids are `serial`: a per-table counter  *)
(* that only grows, also across                                            *)
(* deletions and across inserts the store refuses. Timestamps read the     *)
(* clock `now`, which Tick advances: defaultNow() when the statement runs  *)
(* in the store, new Date() and Date.now() when the handler evaluates      *)
(* them: after the handler has resumed from the awaited statement before   *)
(* and before the awaited statement that carries the value runs.           *)
(*                                                                         *)
(* The handlers are async functions without a transaction: a request is    *)
(* served statement by statement, and between two awaited statements the   *)
(* statements of other requests run. `calls` holds the requests in flight, *)
(* each with its position, its input, what it has read so far, the time it *)
(* has taken from the clock for a statement still to run and, once it is   *)
(* done, its result; a step of a call is one awaited statement together    *)
(* with the synchronous code up to the next await. Where that code reads   *)
(* the clock the read is a step of its own: the store has executed the     *)
(* statement before, the handler resumes later, and the clock may have     *)
(* advanced and other requests may have written in between. The store      *)
(* enforces the foreign keys of the schema on every statement.             *)
(*                                                                         *)
(* Next to its steps a handler is written as an operator of its input that *)
(* reads the tables and yields the outcome of the call when its statements *)
(* run one after the other with no statement of another request in         *)
(* between: the message of the Error it threw (NoError if it returned),    *)
(* the rows it returned (the empty set for null), its boolean result, and  *)
(* the database it leaves behind. A handler of one statement takes its     *)
(* step with that outcome.                                                 *)
(***************************************************************************)
EXTENDS Integers, FiniteSets, Sequences, TLC

VARIABLES users, seminars, registrations, attendance, certificates,
          nextUserId, nextSeminarId, nextRegistrationId,
          nextAttendanceId, nextCertificateId, now, calls

vars == <<users, seminars, registrations, attendance, certificates,
          nextUserId, nextSeminarId, nextRegistrationId,
          nextAttendanceId, nextCertificateId, now, calls>>

(* ------------------------------ bounds --------------------------------- *)
MaxUsers == 4
MaxSeminars == 2
MaxRegistrations == 2
MaxCapacity == 2
MaxTime == 1
MaxCalls == 2
MaxAttendance == 2
MaxCertificates == 2
MaxEmails == 4
MaxCost == 1

UserIds == 1..MaxUsers
SeminarIds == 1..MaxSeminars
RegistrationIds == 1..MaxRegistrations
Procs == 1..MaxCalls
Capacities == 1..MaxCapacity
(* The addresses users are created with; address k is the one the k-th     *)
(* fixture user holds.                                                     *)
Emails == 1..MaxEmails
(* The costs seminars are created with.                                    *)
Costs == 0..MaxCost

(* ------------------------------ enums ---------------------------------- *)
userRoleEnum == {"admin", "participant", "speaker"}
registrationTypeEnum == {"free", "approval_required", "payment_required"}
registrationStatusEnum == {"pending", "approved", "rejected", "paid", "cancelled"}

(* An optional input field: {} when the field is absent, {v} when given.   *)
Optional(S) == {{}} \cup {{v} : v \in S}
Given(opt, old) == IF opt = {} THEN old ELSE CHOOSE v \in opt : TRUE
(* A nullable value: {} for null, {v} for the value v.                     *)
Nullable(S) == {{}} \cup {{v} : v \in S}

(* seminars.cost is numeric(10, 2): the store takes and gives the text of  *)
(* the number. toString is the text of a number, parseFloat the number of  *)
(* a text.                                                                 *)
toString(number) == [text |-> number]
parseFloat(text) == text.text
(* cost !== null && cost !== undefined ? cost.toString() : null            *)
costText(cost) == {toString(number) : number \in cost}
(* cost ? parseFloat(cost) : null. The text of a number is never the empty *)
(* string, so the test lets every text through and null stays null.        *)
costNumber(cost) == {parseFloat(text) : text \in cost}

(* ------------------------------ outcomes ------------------------------- *)
NoError == "none"
NoRows == {}

(* The database as it stands.                                              *)
db == [users |-> users, seminars |-> seminars, registrations |-> registrations,
       attendance |-> attendance, certificates |-> certificates,
       nextUserId |-> nextUserId, nextSeminarId |-> nextSeminarId,
       nextRegistrationId |-> nextRegistrationId,
       nextAttendanceId |-> nextAttendanceId,
       nextCertificateId |-> nextCertificateId]

(* A call that returned `rows` / `flag` and left the database `after`.     *)
Returned(rows, flag, after) ==
    [err |-> NoError, rows |-> rows, flag |-> flag, db |-> after]
(* A call that threw: nothing was written before the throw.                *)
Threw(msg) == [err |-> msg, rows |-> NoRows, flag |-> FALSE, db |-> db]
(* A call that threw on a statement the store refused: the rows are as     *)
(* they were, a serial the statement drew from has advanced.               *)
ThrewAfter(msg, after) ==
    [err |-> msg, rows |-> NoRows, flag |-> FALSE, db |-> after]

Write(after) ==
    /\ users' = after.users
    /\ seminars' = after.seminars
    /\ registrations' = after.registrations
    /\ attendance' = after.attendance
    /\ certificates' = after.certificates
    /\ nextUserId' = after.nextUserId
    /\ nextSeminarId' = after.nextSeminarId
    /\ nextRegistrationId' = after.nextRegistrationId
    /\ nextAttendanceId' = after.nextAttendanceId
    /\ nextCertificateId' = after.nextCertificateId

(* The serial counters stay within the bounds of the model.                *)
WithinBounds(outcome) ==
    /\ outcome.db.nextUserId <= MaxUsers + 1
    /\ outcome.db.nextSeminarId <= MaxSeminars + 1
    /\ outcome.db.nextRegistrationId <= MaxRegistrations + 1

(* A request slot with no call in flight. A call keeps its input (an       *)
(* optional field as the set of the values given), what it has read, the   *)
(* time `stamp` it took from the clock while it built a statement, and its *)
(* result.                                                                 *)
Idle ==
    [op |-> "idle", pc |-> "idle", seminar_id |-> 0, participant_id |-> 0,
     registration_id |-> 0, attended |-> FALSE, status |-> "pending",
     user_id |-> 0, email |-> {}, role |-> {}, speaker_id |-> {},
     capacity |-> {}, cost |-> {}, registration_type |-> {},
     payload |-> FALSE,
     read |-> {}, ids |-> {}, todo |-> {}, stamp |-> 0,
     err |-> NoError, rows |-> NoRows, flag |-> FALSE]

(* ------------------------------ queries -------------------------------- *)
usersById(id) == {u \in users : u.id = id}
seminarsById(id) == {s \in seminars : s.id = id}
registrationsById(id) == {r \in registrations : r.id = id}
registrationsBySeminar(sid) == {r \in registrations : r.seminar_id = sid}
(* A fault of the duplicate lookup: cancelled rows are overlooked.          *)
registrationsByPairNotCancelled(sid, pid) ==
    {r \in registrations : r.seminar_id = sid /\ r.participant_id = pid
                              /\ r.status # "cancelled"}

registrationsByPair(sid, pid) ==
    {r \in registrations : r.seminar_id = sid /\ r.participant_id = pid}
attendanceByRegistration(rid) == {a \in attendance : a.registration_id = rid}
certificatesByRegistration(rid) == {c \in certificates : c.registration_id = rid}
TheRow(rows) == CHOOSE r \in rows : TRUE
(* result[0] of a statement that returns several rows: the store returns   *)
(* them in the order they were inserted, the lowest id first.              *)
First(rows) == {r \in rows : \A o \in rows : r.id <= o.id}

(* ------------------------------ Init ----------------------------------- *)
Init ==
    /\ users = {}
    /\ seminars = {}
    /\ registrations = {}
    /\ attendance = {}
    /\ certificates = {}
    /\ nextUserId = 1
    /\ nextSeminarId = 1
    /\ nextRegistrationId = 1
    /\ nextAttendanceId = 1
    /\ nextCertificateId = 1
    /\ now = 0
    /\ calls = [p \in Procs |-> Idle]

(* The fixtures the handler tests build before each case. FixtureUsers:   *)
(* one speaker and two participants, the state three createUser calls      *)
(* leave.                                                                  *)
FixtureUsers ==
    /\ users = {[id |-> 1, email |-> 1, role |-> "speaker"],
                [id |-> 2, email |-> 2, role |-> "participant"],
                [id |-> 3, email |-> 3, role |-> "participant"]}
    /\ registrations = {}
    /\ attendance = {}
    /\ certificates = {}
    /\ nextUserId = 4
    /\ nextRegistrationId = 1
    /\ nextAttendanceId = 1
    /\ nextCertificateId = 1
    /\ now = 0
    /\ calls = [p \in Procs |-> Idle]

Fixture ==
    /\ FixtureUsers
    /\ seminars = {}
    /\ nextSeminarId = 1

(* FixtureSeminars: the users and two seminars of the speaker, as two      *)
(* createSeminar calls leave them: the free seminar without a cost, the    *)
(* seminar that requires approval with one.                                *)
FixtureSeminars ==
    /\ FixtureUsers
    /\ seminars = {[id |-> 1, speaker_id |-> 1, capacity |-> 2,
                    registration_type |-> "free", cost |-> {}],
                   [id |-> 2, speaker_id |-> 1, capacity |-> 1,
                    registration_type |-> "approval_required",
                    cost |-> {toString(1)}]}
    /\ nextSeminarId = 3

(* FixtureSeminar: the users and one seminar that requires approval.       *)
FixtureSeminar ==
    /\ FixtureUsers
    /\ seminars = {[id |-> 1, speaker_id |-> 1, capacity |-> 2,
                    registration_type |-> "approval_required",
                    cost |-> {toString(1)}]}
    /\ nextSeminarId = 2

(* FixtureFreeSeminar: the users and one free seminar with a single seat.  *)
FixtureFreeSeminar ==
    /\ FixtureUsers
    /\ seminars = {[id |-> 1, speaker_id |-> 1, capacity |-> 1,
                    registration_type |-> "free", cost |-> {}]}
    /\ nextSeminarId = 2

(* FixtureRegistered: participant 2 has registered for the free seminar.   *)
FixtureRegistered ==
    /\ users = {[id |-> 1, email |-> 1, role |-> "speaker"],
                [id |-> 2, email |-> 2, role |-> "participant"],
                [id |-> 3, email |-> 3, role |-> "participant"]}
    /\ seminars = {[id |-> 1, speaker_id |-> 1, capacity |-> 1,
                    registration_type |-> "free", cost |-> {}]}
    /\ nextSeminarId = 2
    /\ registrations = {[id |-> 1, seminar_id |-> 1, participant_id |-> 2,
                         registration_date |-> 0, status |-> "approved",
                         created_at |-> 0]}
    /\ attendance = {}
    /\ certificates = {}
    /\ nextUserId = 4
    /\ nextRegistrationId = 2
    /\ nextAttendanceId = 1
    /\ nextCertificateId = 1
    /\ now = 0
    /\ calls = [p \in Procs |-> Idle]

Tick ==
    /\ now < MaxTime
    /\ now' = now + 1
    /\ UNCHANGED <<users, seminars, registrations, attendance, certificates,
                   nextUserId, nextSeminarId, nextRegistrationId,
                   nextAttendanceId, nextCertificateId, calls>>

(* ------------------------------ users ---------------------------------- *)
ForeignKeyViolation == "violates foreign key constraint"

(* users.email is unique: the store refuses a second row with an address  *)
(* and the handler rethrows what the store threw.                          *)
DuplicateEmail ==
    "duplicate key value violates unique constraint \"users_email_unique\""

(* One insert. The id is drawn from the serial before the store checks the *)
(* address, so a refused insert uses an id up.                             *)
createUser(email, role) ==
    LET row == [id |-> nextUserId, email |-> email, role |-> role]
    IN IF \E u \in users : u.email = email
       THEN ThrewAfter(DuplicateEmail, [db EXCEPT !.nextUserId = nextUserId + 1])
       ELSE Returned({row}, FALSE,
                     [db EXCEPT !.users = users \cup {row},
                                !.nextUserId = nextUserId + 1])

(* Of the optional fields email and role are carried; with no field given  *)
(* the handler returns the stored row, which is what an update of the      *)
(* fields not carried leaves too. An address another user holds is refused *)
(* by the store.                                                           *)
updateUser(id, email, role) ==
    LET existingUser == usersById(id)
        result == {[u EXCEPT !.email = Given(email, u.email),
                             !.role = Given(role, u.role)] : u \in existingUser}
    IN IF existingUser = {} THEN Returned(NoRows, FALSE, db)
       ELSE IF \E u \in users \ existingUser : {u.email} = email
       THEN Threw(DuplicateEmail)
       ELSE Returned(result, FALSE,
                     [db EXCEPT !.users = (users \ existingUser) \cup result])

(* seminars.speaker_id and registrations.participant_id reference users.id *)
(* without ON DELETE: the store refuses to delete a referenced user.       *)
userReferenced(id) ==
    \/ \E s \in seminars : s.speaker_id = id
    \/ \E r \in registrations : r.participant_id = id

(* A store without the foreign keys: a referenced user is deleted too.     *)
deleteUserUnchecked(id) ==
    Returned(NoRows, usersById(id) # {},
             [db EXCEPT !.users = users \ usersById(id)])

deleteUser(id) ==
    IF userReferenced(id) THEN Threw(ForeignKeyViolation)
    ELSE Returned(NoRows, usersById(id) # {},
                  [db EXCEPT !.users = users \ usersById(id)])

(* ------------------------------ seminars ------------------------------- *)
(* The messages of createSeminar name the id they were given and the role  *)
(* they found.                                                             *)
SpeakerNotFound(speaker_id) ==
    "Speaker with ID " \o ToString(speaker_id) \o " not found"
NotASpeaker(speaker_id, role) ==
    "User with ID " \o ToString(speaker_id)
        \o " is not a speaker (role: " \o role \o ")"
SeminarNotFound == "Seminar not found"

(* A fault of the speaker check: any existing user is accepted.            *)
speakerErrorAnyRole(speaker_id) ==
    IF usersById(speaker_id) = {} THEN SpeakerNotFound(speaker_id) ELSE NoError

(* The speaker check of createSeminar: the user must exist and carry the   *)
(* role speaker.                                                           *)
speakerError(speaker_id) ==
    IF usersById(speaker_id) = {} THEN SpeakerNotFound(speaker_id)
    ELSE IF TheRow(usersById(speaker_id)).role # "speaker"
         THEN NotASpeaker(speaker_id, TheRow(usersById(speaker_id)).role)
    ELSE NoError

(* The same check in updateSeminar, with its own messages.                 *)
SpeakerDoesNotExist(speaker_id) ==
    "Speaker with id " \o ToString(speaker_id) \o " does not exist"
NoSpeakerRole(speaker_id) ==
    "User with id " \o ToString(speaker_id) \o " does not have 'speaker' role"
(* What the query builder throws when .set() is handed no column.          *)
NoValuesToSet == "No values to set"

updateSpeakerError(speaker_id) ==
    IF usersById(speaker_id) = {} THEN SpeakerDoesNotExist(speaker_id)
    ELSE IF TheRow(usersById(speaker_id)).role # "speaker"
         THEN NoSpeakerRole(speaker_id)
    ELSE NoError

(* What createSeminar and updateSeminar return of the row the store gave   *)
(* back: the row with its cost as a number, or null.                       *)
seminarResult(seminar) == [seminar EXCEPT !.cost = costNumber(seminar.cost)]

(* `cost` is the nullable number of the input.                             *)
createSeminar(speaker_id, capacity, cost, registration_type) ==
    LET err == speakerError(speaker_id)
        row == [id |-> nextSeminarId, speaker_id |-> speaker_id,
                capacity |-> capacity, cost |-> costText(cost),
                registration_type |-> registration_type]
    IN IF err # NoError THEN Threw(err)
       ELSE Returned({seminarResult(row)}, FALSE,
                     [db EXCEPT !.seminars = seminars \cup {row},
                                !.nextSeminarId = nextSeminarId + 1])

(* updateFields: each of speaker_id, capacity, cost, registration_type is  *)
(* an optional field; an absent field keeps the stored value. A cost that  *)
(* is given is a nullable number: null is stored as null, a number as its  *)
(* text. `payload` says whether one of the fields not carried (title,      *)
(* description, date, time, location) is given.                            *)
updateSeminarRow(s, speaker_id, capacity, cost, registration_type) ==
    [id |-> s.id,
     speaker_id |-> Given(speaker_id, s.speaker_id),
     capacity |-> Given(capacity, s.capacity),
     cost |-> IF cost = {} THEN s.cost ELSE costText(Given(cost, {})),
     registration_type |-> Given(registration_type, s.registration_type)]

(* A fault of the order: the speaker is validated before the seminar is    *)
(* looked up.                                                              *)
updateSeminarSpeakerFirst(id, speaker_id, capacity, cost, registration_type, payload) ==
    LET existingSeminar == seminarsById(id)
        err == IF speaker_id = {} THEN NoError
               ELSE updateSpeakerError(TheRow(speaker_id))
        result == {updateSeminarRow(s, speaker_id, capacity, cost,
                                    registration_type) : s \in existingSeminar}
    IN IF err # NoError THEN Threw(err)
       ELSE IF existingSeminar = {} THEN Returned(NoRows, FALSE, db)
       ELSE IF speaker_id = {} /\ capacity = {} /\ cost = {}
               /\ registration_type = {} /\ ~payload
       THEN Threw(NoValuesToSet)
       ELSE Returned({seminarResult(s) : s \in result}, FALSE,
                     [db EXCEPT !.seminars = (seminars \ existingSeminar) \cup result])

(* The seminar is looked up, the speaker checked when one is given, then   *)
(* the update is built from the fields given: with none it is refused      *)
(* before it reaches the store.                                            *)
updateSeminar(id, speaker_id, capacity, cost, registration_type, payload) ==
    LET existingSeminar == seminarsById(id)
        err == IF speaker_id = {} THEN NoError
               ELSE updateSpeakerError(TheRow(speaker_id))
        result == {updateSeminarRow(s, speaker_id, capacity, cost,
                                    registration_type) : s \in existingSeminar}
    IN IF existingSeminar = {} THEN Returned(NoRows, FALSE, db)
       ELSE IF err # NoError THEN Threw(err)
       ELSE IF speaker_id = {} /\ capacity = {} /\ cost = {}
               /\ registration_type = {} /\ ~payload
       THEN Threw(NoValuesToSet)
       ELSE Returned({seminarResult(s) : s \in result}, FALSE,
                     [db EXCEPT !.seminars = (seminars \ existingSeminar) \cup result])

(* Faults of the deletion: one that leaves the certificates behind, one    *)
(* that leaves the attendance behind, one that throws on an unresolved id. *)
deleteSeminarKeepCertificates(id) ==
    LET seminar == seminarsById(id)
        registrationIds == {r.id : r \in registrationsBySeminar(id)}
    IN IF seminar = {} THEN Returned(NoRows, FALSE, db)
       ELSE Returned(NoRows, TRUE,
              [db EXCEPT
                 !.attendance =
                     {a \in attendance : a.registration_id \notin registrationIds},
                 !.registrations = registrations \ registrationsBySeminar(id),
                 !.seminars = seminars \ seminar])

deleteSeminarKeepAttendance(id) ==
    LET seminar == seminarsById(id)
        registrationIds == {r.id : r \in registrationsBySeminar(id)}
    IN IF seminar = {} THEN Returned(NoRows, FALSE, db)
       ELSE Returned(NoRows, TRUE,
              [db EXCEPT
                 !.certificates =
                     {c \in certificates : c.registration_id \notin registrationIds},
                 !.registrations = registrations \ registrationsBySeminar(id),
                 !.seminars = seminars \ seminar])

deleteSeminarOrThrow(id) ==
    LET seminar == seminarsById(id)
        registrationIds == {r.id : r \in registrationsBySeminar(id)}
    IN IF seminar = {} THEN Threw(SeminarNotFound)
       ELSE Returned(NoRows, TRUE,
              [db EXCEPT
                 !.certificates =
                     {c \in certificates : c.registration_id \notin registrationIds},
                 !.attendance =
                     {a \in attendance : a.registration_id \notin registrationIds},
                 !.registrations = registrations \ registrationsBySeminar(id),
                 !.seminars = seminars \ seminar])

(* deleteSeminar as one completed call: certificates, then attendance,     *)
(* then registrations of the seminar, then the seminar row.                *)
deleteSeminar(id) ==
    LET seminar == seminarsById(id)
        registrationIds == {r.id : r \in registrationsBySeminar(id)}
    IN IF seminar = {} THEN Returned(NoRows, FALSE, db)
       ELSE Returned(NoRows, TRUE,
              [db EXCEPT
                 !.certificates =
                     {c \in certificates : c.registration_id \notin registrationIds},
                 !.attendance =
                     {a \in attendance : a.registration_id \notin registrationIds},
                 !.registrations = registrations \ registrationsBySeminar(id),
                 !.seminars = seminars \ seminar])

(* ------------------------------ registrations -------------------------- *)
ParticipantNotFound == "Participant not found"
NotAParticipant == "User must have participant role to register for seminars"
AlreadyRegistered == "Participant is already registered for this seminar"
AtCapacity == "Seminar is at capacity"

(* A fault of the capacity count: only paid registrations take a seat.     *)
activeRegistrationsPaidOnly(seminar_id) ==
    Cardinality({reg \in registrationsBySeminar(seminar_id) :
                    reg.status = "paid"})

(* Faults of the capacity count: one that forgets the paid registrations   *)
(* and one that counts every registration of the seminar.                  *)
activeRegistrationsApprovedOnly(seminar_id) ==
    Cardinality({reg \in registrationsBySeminar(seminar_id) :
                    reg.status = "approved"})

activeRegistrationsAnyStatus(seminar_id) ==
    Cardinality(registrationsBySeminar(seminar_id))

(* currentRegistrations.filter(approved or paid).length                    *)
activeRegistrations(seminar_id) ==
    Cardinality({reg \in registrationsBySeminar(seminar_id) :
                    reg.status = "approved" \/ reg.status = "paid"})

(* A fault of the checks: the role of the participant is not looked at.    *)
createRegistrationErrorAnyRole(seminar_id, participant_id) ==
    IF usersById(participant_id) = {} THEN ParticipantNotFound
    ELSE IF seminarsById(seminar_id) = {} THEN SeminarNotFound
    ELSE IF registrationsByPair(seminar_id, participant_id) # {}
         THEN AlreadyRegistered
    ELSE IF activeRegistrations(seminar_id)
               >= TheRow(seminarsById(seminar_id)).capacity
         THEN AtCapacity
    ELSE NoError

(* A fault of the order: the capacity is checked before the duplicate.     *)
createRegistrationErrorCapacityFirst(seminar_id, participant_id) ==
    IF usersById(participant_id) = {} THEN ParticipantNotFound
    ELSE IF TheRow(usersById(participant_id)).role # "participant"
         THEN NotAParticipant
    ELSE IF seminarsById(seminar_id) = {} THEN SeminarNotFound
    ELSE IF activeRegistrations(seminar_id)
               >= TheRow(seminarsById(seminar_id)).capacity
         THEN AtCapacity
    ELSE IF registrationsByPair(seminar_id, participant_id) # {}
         THEN AlreadyRegistered
    ELSE NoError

(* The checks of createRegistration in the order the handler makes them:   *)
(* the message of the first that fails, NoError if all pass.               *)
createRegistrationError(seminar_id, participant_id) ==
    IF usersById(participant_id) = {} THEN ParticipantNotFound
    ELSE IF TheRow(usersById(participant_id)).role # "participant"
         THEN NotAParticipant
    ELSE IF seminarsById(seminar_id) = {} THEN SeminarNotFound
    ELSE IF registrationsByPair(seminar_id, participant_id) # {}
         THEN AlreadyRegistered
    ELSE IF activeRegistrations(seminar_id)
               >= TheRow(seminarsById(seminar_id)).capacity
         THEN AtCapacity
    ELSE NoError

(* Faults of the initial status: one that keeps the caller's status, one   *)
(* that forgets the payment_required branch.                               *)
initialStatusFromInput(registration_type, status) == status

initialStatusApprovalOnly(registration_type, status) ==
    IF registration_type = "free" THEN "approved"
    ELSE IF registration_type = "approval_required" THEN "pending"
    ELSE status

initialStatus(registration_type, status) ==
    IF registration_type = "free" THEN "approved"
    ELSE IF registration_type = "approval_required"
            \/ registration_type = "payment_required" THEN "pending"
    ELSE status

(* A fault of the insert: the two foreign keys are swapped.                *)
newRegistrationSwapped(seminar_id, participant_id, status) ==
    [id |-> nextRegistrationId,
     seminar_id |-> participant_id,
     participant_id |-> seminar_id,
     registration_date |-> now,
     status |-> status,
     created_at |-> now]

(* The row the insert produces: id from the serial, both timestamps from   *)
(* defaultNow().                                                           *)
newRegistration(seminar_id, participant_id, status) ==
    [id |-> nextRegistrationId,
     seminar_id |-> seminar_id,
     participant_id |-> participant_id,
     registration_date |-> now,
     status |-> status,
     created_at |-> now]

createRegistration(seminar_id, participant_id, status) ==
    LET err == createRegistrationError(seminar_id, participant_id)
        row == newRegistration(seminar_id, participant_id,
                  initialStatus(TheRow(seminarsById(seminar_id)).registration_type,
                                status))
    IN IF err # NoError THEN Threw(err)
       ELSE Returned({row}, FALSE,
                     [db EXCEPT !.registrations = registrations \cup {row},
                                !.nextRegistrationId = nextRegistrationId + 1])

(* Faults of the status update: one that treats cancelled as final, one    *)
(* that also stamps the registration date.                                 *)
setStatusUnlessCancelled(r, status) ==
    IF r.status = "cancelled" THEN r ELSE [r EXCEPT !.status = status]

setStatusAndDate(r, status) ==
    [r EXCEPT !.status = status, !.registration_date = now]

(* db.update(registrationsTable).set({status}).where(id = input.id)        *)
setStatus(r, status) == [r EXCEPT !.status = status]

(* A fault of the status update: a rejected or cancelled registration      *)
(* loses its certificate.                                                  *)
updateRegistrationStatusRevokes(id, status) ==
    LET target == registrationsById(id)
        result == {setStatus(r, status) : r \in target}
    IN Returned(result, FALSE,
                [db EXCEPT !.registrations = (registrations \ target) \cup result,
                           !.certificates =
                               IF status \in {"rejected", "cancelled"}
                               THEN certificates \ certificatesByRegistration(id)
                               ELSE certificates])

updateRegistrationStatus(id, status) ==
    LET target == registrationsById(id)
        result == {setStatus(r, status) : r \in target}
    IN Returned(result, FALSE,
                [db EXCEPT !.registrations = (registrations \ target) \cup result])

(* A fault of the cancellation: the status of the input is stored.         *)
cancelRegistrationInputStatus(id, status) ==
    LET target == registrationsById(id)
        result == {setStatus(r, status) : r \in target}
    IN Returned(NoRows, result # {},
                [db EXCEPT !.registrations = (registrations \ target) \cup result])

(* A fault of the cancellation: the row is deleted instead of kept.        *)
cancelRegistrationRemovesRow(id, status) ==
    LET target == registrationsById(id)
    IN Returned(NoRows, target # {},
                [db EXCEPT !.registrations = registrations \ target])

cancelRegistration(id, status) ==
    LET target == registrationsById(id)
        result == {setStatus(r, "cancelled") : r \in target}
    IN Returned(NoRows, result # {},
                [db EXCEPT !.registrations = (registrations \ target) \cup result])

(* The listings. A payload column is not carried by the rows of the model: *)
(* Column names the value a row of a table holds in it.                    *)
Column(table, id, column) == [table |-> table, id |-> id, column |-> column]

(* registrations INNER JOIN seminars INNER JOIN users (the participant),   *)
(* each result mapped to the registration with the six joined fields.      *)
getRegistrations ==
    Returned(
        {[id |-> r.id, seminar_id |-> r.seminar_id,
          participant_id |-> r.participant_id,
          registration_date |-> r.registration_date,
          status |-> r.status, created_at |-> r.created_at,
          seminar_title |-> Column("seminars", s.id, "title"),
          seminar_date |-> Column("seminars", s.id, "date"),
          seminar_location |-> Column("seminars", s.id, "location"),
          seminar_cost |-> costNumber(s.cost),
          participant_name |-> Column("users", u.id, "name"),
          participant_email |-> u.email] :
            <<r, s, u>> \in {x \in registrations \X seminars \X users :
                                /\ x[1].seminar_id = x[2].id
                                /\ x[1].participant_id = x[3].id}},
        FALSE, db)

(* registrations INNER JOIN seminars INNER JOIN users (the speaker of the  *)
(* seminar) WHERE participant_id = ..., each result mapped to the six      *)
(* columns of the registration.                                            *)
getRegistrationsByUser(participant_id) ==
    Returned(
        {[id |-> r.id, seminar_id |-> r.seminar_id,
          participant_id |-> r.participant_id,
          registration_date |-> r.registration_date,
          status |-> r.status, created_at |-> r.created_at] :
            <<r, s, u>> \in {x \in registrations \X seminars \X users :
                                /\ x[1].seminar_id = x[2].id
                                /\ x[2].speaker_id = x[3].id
                                /\ x[1].participant_id = participant_id}},
        FALSE, db)

(* registrations INNER JOIN users (the participant) WHERE seminar_id =     *)
(* ..., each result mapped to the six columns of the registration.         *)
getRegistrationsBySeminar(seminar_id) ==
    Returned(
        {[id |-> r.id, seminar_id |-> r.seminar_id,
          participant_id |-> r.participant_id,
          registration_date |-> r.registration_date,
          status |-> r.status, created_at |-> r.created_at] :
            <<r, u>> \in {x \in registrations \X users :
                             /\ x[1].participant_id = x[2].id
                             /\ x[1].seminar_id = seminar_id}},
        FALSE, db)

(* ------------------------------ attendance ----------------------------- *)
(* updateAttendance as one completed call: the update writes every row of  *)
(* the registration and returns result[0].                                 *)
RegistrationNotFound == "Registration not found"
NotApprovedOrPaid == "Registration must be approved or paid to track attendance"

(* A fault of the status check: pending registrations are let through.     *)
updateAttendanceErrorPendingAllowed(registration_id) ==
    IF registrationsById(registration_id) = {} THEN RegistrationNotFound
    ELSE IF LET s == TheRow(registrationsById(registration_id)).status
            IN s # "approved" /\ s # "paid" /\ s # "pending"
         THEN NotApprovedOrPaid
    ELSE NoError

updateAttendanceError(registration_id) ==
    IF registrationsById(registration_id) = {} THEN RegistrationNotFound
    ELSE IF LET s == TheRow(registrationsById(registration_id)).status
            IN s # "approved" /\ s # "paid"
         THEN NotApprovedOrPaid
    ELSE NoError

(* Faults of the upsert: one that always inserts, one that leaves the      *)
(* attended flag of an existing row as it was.                             *)
updateAttendanceAlwaysInsert(registration_id, attended, stamp) ==
    LET err == updateAttendanceError(registration_id)
        row == [id |-> nextAttendanceId, registration_id |-> registration_id,
                attended |-> attended, attendance_date |-> stamp,
                created_at |-> now]
    IN IF err # NoError THEN Threw(err)
       ELSE Returned({row}, FALSE,
               [db EXCEPT !.attendance = attendance \cup {row},
                          !.nextAttendanceId = nextAttendanceId + 1])

updateAttendanceFirstWriteWins(registration_id, attended, stamp) ==
    LET err == updateAttendanceError(registration_id)
        existingAttendance == attendanceByRegistration(registration_id)
        updated == {[a EXCEPT !.attendance_date = stamp] : a \in existingAttendance}
        row == [id |-> nextAttendanceId, registration_id |-> registration_id,
                attended |-> attended, attendance_date |-> stamp,
                created_at |-> now]
    IN IF err # NoError THEN Threw(err)
       ELSE IF existingAttendance # {}
       THEN Returned(First(updated), FALSE,
               [db EXCEPT !.attendance = (attendance \ existingAttendance) \cup updated])
       ELSE Returned({row}, FALSE,
               [db EXCEPT !.attendance = attendance \cup {row},
                          !.nextAttendanceId = nextAttendanceId + 1])

(* A fault of the upsert: an existing row is replaced by a new one.         *)
updateAttendanceReplacesRow(registration_id, attended, stamp) ==
    LET err == updateAttendanceError(registration_id)
        existingAttendance == attendanceByRegistration(registration_id)
        row == [id |-> nextAttendanceId, registration_id |-> registration_id,
                attended |-> attended, attendance_date |-> stamp,
                created_at |-> now]
    IN IF err # NoError THEN Threw(err)
       ELSE Returned({row}, FALSE,
               [db EXCEPT !.attendance = (attendance \ existingAttendance) \cup {row},
                          !.nextAttendanceId = nextAttendanceId + 1])

(* updateAttendance with the value `stamp` that new Date() gave when the    *)
(* handler built the update or the insert: attendance_date is that value,  *)
(* created_at of an inserted row is the store's defaultNow().              *)
updateAttendanceAt(registration_id, attended, stamp) ==
    LET err == updateAttendanceError(registration_id)
        existingAttendance == attendanceByRegistration(registration_id)
        updated == {[a EXCEPT !.attended = attended, !.attendance_date = stamp] :
                       a \in existingAttendance}
        row == [id |-> nextAttendanceId, registration_id |-> registration_id,
                attended |-> attended, attendance_date |-> stamp,
                created_at |-> now]
    IN IF err # NoError THEN Threw(err)
       ELSE IF existingAttendance # {}
       THEN Returned(First(updated), FALSE,
               [db EXCEPT !.attendance = (attendance \ existingAttendance) \cup updated])
       ELSE Returned({row}, FALSE,
               [db EXCEPT !.attendance = attendance \cup {row},
                          !.nextAttendanceId = nextAttendanceId + 1])

(* The call served alone: the clock stands while its statements run, so    *)
(* new Date() gives the time at which the update or the insert executes.   *)
updateAttendance(registration_id, attended) ==
    updateAttendanceAt(registration_id, attended, now)

(* ------------------------------ certificates --------------------------- *)
InvalidStatus == "Registration is not in a valid status for certificate generation"
DidNotAttend == "Participant did not attend the seminar"

(* registrations INNER JOIN seminars INNER JOIN users WHERE id = ...       *)
registrationResults(registration_id) ==
    {r \in registrationsById(registration_id) :
        seminarsById(r.seminar_id) # {} /\ usersById(r.participant_id) # {}}

(* A fault of the attendance check: any attendance row is enough.          *)
generateCertificateErrorAnyAttendance(registration_id) ==
    IF registrationResults(registration_id) = {} THEN RegistrationNotFound
    ELSE IF TheRow(registrationResults(registration_id)).status
               \in {"pending", "rejected", "cancelled"}
         THEN InvalidStatus
    ELSE IF attendanceByRegistration(registration_id) = {}
         THEN DidNotAttend
    ELSE NoError

generateCertificateError(registration_id) ==
    IF registrationResults(registration_id) = {} THEN RegistrationNotFound
    ELSE IF TheRow(registrationResults(registration_id)).status
               \in {"pending", "rejected", "cancelled"}
         THEN InvalidStatus
    ELSE IF {a \in attendanceByRegistration(registration_id) : a.attended} = {}
         THEN DidNotAttend
    ELSE NoError

(* `/certificates/cert_${registration_id}_${timestamp}.txt`: the two       *)
(* numbers the path is built from.                                         *)
certificateUrl(registration_id, timestamp) ==
    [registration_id |-> registration_id, timestamp |-> timestamp]

(* Faults of the issuance: one that answers a repeat request with a fresh  *)
(* path on the stored row, one that inserts a certificate on every call.   *)
generateCertificateFreshUrl(registration_id, timestamp) ==
    LET err == generateCertificateError(registration_id)
        existingCertificates == certificatesByRegistration(registration_id)
        row == [id |-> nextCertificateId, registration_id |-> registration_id,
                issue_date |-> now,
                certificate_url |-> certificateUrl(registration_id, timestamp),
                created_at |-> now]
    IN IF err # NoError THEN Threw(err)
       ELSE IF existingCertificates # {}
       THEN Returned({[TheRow(First(existingCertificates)) EXCEPT
                          !.certificate_url = certificateUrl(registration_id, timestamp)]},
                     FALSE, db)
       ELSE Returned({row}, FALSE,
               [db EXCEPT !.certificates = certificates \cup {row},
                          !.nextCertificateId = nextCertificateId + 1])

generateCertificateAlwaysInsert(registration_id, timestamp) ==
    LET err == generateCertificateError(registration_id)
        row == [id |-> nextCertificateId, registration_id |-> registration_id,
                issue_date |-> now,
                certificate_url |-> certificateUrl(registration_id, timestamp),
                created_at |-> now]
    IN IF err # NoError THEN Threw(err)
       ELSE Returned({row}, FALSE,
               [db EXCEPT !.certificates = certificates \cup {row},
                          !.nextCertificateId = nextCertificateId + 1])

(* A variant of the issuance that looks for the stored certificate before  *)
(* it checks the registration.                                             *)
generateCertificateExistingFirst(registration_id, timestamp) ==
    LET err == generateCertificateError(registration_id)
        existingCertificates == certificatesByRegistration(registration_id)
        row == [id |-> nextCertificateId, registration_id |-> registration_id,
                issue_date |-> now,
                certificate_url |-> certificateUrl(registration_id, timestamp),
                created_at |-> now]
    IN IF existingCertificates # {}
       THEN Returned(First(existingCertificates), FALSE, db)
       ELSE IF err # NoError THEN Threw(err)
       ELSE Returned({row}, FALSE,
               [db EXCEPT !.certificates = certificates \cup {row},
                          !.nextCertificateId = nextCertificateId + 1])

(* generateCertificate with the value `timestamp` that Date.now() gave     *)
(* when the handler built the path: issue_date and created_at of the       *)
(* inserted row are the store's defaultNow().                              *)
generateCertificateAt(registration_id, timestamp) ==
    LET err == generateCertificateError(registration_id)
        existingCertificates == certificatesByRegistration(registration_id)
        row == [id |-> nextCertificateId, registration_id |-> registration_id,
                issue_date |-> now,
                certificate_url |-> certificateUrl(registration_id, timestamp),
                created_at |-> now]
    IN IF err # NoError THEN Threw(err)
       ELSE IF existingCertificates # {}
       THEN Returned(First(existingCertificates), FALSE, db)
       ELSE Returned({row}, FALSE,
               [db EXCEPT !.certificates = certificates \cup {row},
                          !.nextCertificateId = nextCertificateId + 1])

(* The call served alone: the clock stands while its statements run, so    *)
(* Date.now() gives the time at which the insert executes.                 *)
generateCertificate(registration_id) ==
    generateCertificateAt(registration_id, now)

(* ------------------------------ calls in flight ------------------------ *)
(* What one step of a call leaves: the call and the database.              *)
StepResult(call, after) == [call |-> call, db |-> after]
Goes(c, pc) == StepResult([c EXCEPT !.pc = pc], db)
Throws(c, msg) == StepResult([c EXCEPT !.pc = "done", !.err = msg], db)
(* The store refused an insert: the id it drew from the serial is used up. *)
ThrowsAfter(c, msg, after) ==
    StepResult([c EXCEPT !.pc = "done", !.err = msg], after)
Finishes(c, rows, flag, after) ==
    StepResult([c EXCEPT !.pc = "done", !.rows = rows, !.flag = flag], after)
(* A handler of one statement: the call ends with the outcome of the       *)
(* statement.                                                              *)
Settles(c, outcome) ==
    StepResult([c EXCEPT !.pc = "done", !.err = outcome.err,
                         !.rows = outcome.rows, !.flag = outcome.flag],
               outcome.db)

(* createRegistration statement by statement. The seminar row read by the  *)
(* second statement is the one the capacity check and the initial status   *)
(* use later; the insert is subject to both foreign keys.                  *)
createRegistrationStep(c) ==
    CASE c.pc = "participant" ->
            IF usersById(c.participant_id) = {}
            THEN Throws(c, ParticipantNotFound)
            ELSE IF TheRow(usersById(c.participant_id)).role # "participant"
            THEN Throws(c, NotAParticipant)
            ELSE Goes(c, "seminar")
      [] c.pc = "seminar" ->
            IF seminarsById(c.seminar_id) = {}
            THEN Throws(c, SeminarNotFound)
            ELSE Goes([c EXCEPT !.read = seminarsById(c.seminar_id)], "duplicate")
      [] c.pc = "duplicate" ->
            IF registrationsByPair(c.seminar_id, c.participant_id) # {}
            THEN Throws(c, AlreadyRegistered)
            ELSE Goes(c, "count")
      [] c.pc = "count" -> Goes(c, "capacity")
      [] c.pc = "capacity" ->
            IF activeRegistrations(c.seminar_id) >= TheRow(c.read).capacity
            THEN Throws(c, AtCapacity)
            ELSE Goes(c, "insert")
      [] OTHER ->
            LET row == newRegistration(c.seminar_id, c.participant_id,
                          initialStatus(TheRow(c.read).registration_type, c.status))
            IN IF seminarsById(c.seminar_id) = {} \/ usersById(c.participant_id) = {}
               THEN ThrowsAfter(c, ForeignKeyViolation,
                       [db EXCEPT !.nextRegistrationId = nextRegistrationId + 1])
               ELSE Finishes(c, {row}, FALSE,
                       [db EXCEPT !.registrations = registrations \cup {row},
                                  !.nextRegistrationId = nextRegistrationId + 1])

(* updateAttendance statement by statement: the registration, the lookup   *)
(* of the attendance row, then the update or the insert the lookup chose.  *)
(* new Date() is evaluated when the handler, resumed with what the lookup  *)
(* returned, builds the statement (pc "stampUpdate", "stampInsert"): the   *)
(* call keeps that time in `stamp` until the statement has run, and the    *)
(* statement writes it whenever it runs. The update writes every row of    *)
(* the registration and returns the first.                                 *)
updateAttendanceStep(c) ==
    CASE c.pc = "registration" ->
            IF updateAttendanceError(c.registration_id) # NoError
            THEN Throws(c, updateAttendanceError(c.registration_id))
            ELSE Goes(c, "existing")
      [] c.pc = "existing" ->
            IF attendanceByRegistration(c.registration_id) # {}
            THEN Goes(c, "stampUpdate")
            ELSE Goes(c, "stampInsert")
      [] c.pc = "stampUpdate" -> Goes([c EXCEPT !.stamp = now], "update")
      [] c.pc = "stampInsert" -> Goes([c EXCEPT !.stamp = now], "insert")
      [] c.pc = "update" ->
            LET existingAttendance == attendanceByRegistration(c.registration_id)
                updated == {[a EXCEPT !.attended = c.attended,
                                      !.attendance_date = c.stamp] :
                               a \in existingAttendance}
            IN Finishes([c EXCEPT !.stamp = 0], First(updated), FALSE,
                  [db EXCEPT !.attendance =
                                (attendance \ existingAttendance) \cup updated])
      [] OTHER ->
            LET row == [id |-> nextAttendanceId,
                        registration_id |-> c.registration_id,
                        attended |-> c.attended, attendance_date |-> c.stamp,
                        created_at |-> now]
            IN IF registrationsById(c.registration_id) = {}
               THEN ThrowsAfter([c EXCEPT !.stamp = 0], ForeignKeyViolation,
                       [db EXCEPT !.nextAttendanceId = nextAttendanceId + 1])
               ELSE Finishes([c EXCEPT !.stamp = 0], {row}, FALSE,
                       [db EXCEPT !.attendance = attendance \cup {row},
                                  !.nextAttendanceId = nextAttendanceId + 1])

(* generateCertificate statement by statement: the joined registration     *)
(* with the status check, the attended rows, the lookup of the             *)
(* certificate, the insert. Date.now() is evaluated when the handler,      *)
(* resumed with a lookup that found no certificate, builds the path (pc    *)
(* "timestamp"): the call keeps that time in `stamp` until the insert has  *)
(* run, and the insert, whenever it runs, stores the path built from it.   *)
generateCertificateStep(c) ==
    CASE c.pc = "registration" ->
            IF registrationResults(c.registration_id) = {}
            THEN Throws(c, RegistrationNotFound)
            ELSE IF TheRow(registrationResults(c.registration_id)).status
                       \in {"pending", "rejected", "cancelled"}
            THEN Throws(c, InvalidStatus)
            ELSE Goes(c, "attendance")
      [] c.pc = "attendance" ->
            IF {a \in attendanceByRegistration(c.registration_id) : a.attended} = {}
            THEN Throws(c, DidNotAttend)
            ELSE Goes(c, "existing")
      [] c.pc = "existing" ->
            LET existingCertificates == certificatesByRegistration(c.registration_id)
            IN IF existingCertificates # {}
               THEN Finishes(c, First(existingCertificates), FALSE, db)
               ELSE Goes(c, "timestamp")
      [] c.pc = "timestamp" -> Goes([c EXCEPT !.stamp = now], "insert")
      [] OTHER ->
            LET row == [id |-> nextCertificateId,
                        registration_id |-> c.registration_id,
                        issue_date |-> now,
                        certificate_url |-> certificateUrl(c.registration_id,
                                                           c.stamp),
                        created_at |-> now]
            IN IF registrationsById(c.registration_id) = {}
               THEN ThrowsAfter([c EXCEPT !.stamp = 0], ForeignKeyViolation,
                       [db EXCEPT !.nextCertificateId = nextCertificateId + 1])
               ELSE Finishes([c EXCEPT !.stamp = 0], {row}, FALSE,
                       [db EXCEPT !.certificates = certificates \cup {row},
                                  !.nextCertificateId = nextCertificateId + 1])

(* createSeminar statement by statement: the speaker is read and checked,  *)
(* then the seminar is inserted; the insert is subject to the foreign key  *)
(* on speaker_id.                                                          *)
createSeminarStep(c) ==
    CASE c.pc = "speaker" ->
            IF speakerError(TheRow(c.speaker_id)) # NoError
            THEN Throws(c, speakerError(TheRow(c.speaker_id)))
            ELSE Goes(c, "insert")
      [] OTHER ->
            LET row == [id |-> nextSeminarId,
                        speaker_id |-> TheRow(c.speaker_id),
                        capacity |-> TheRow(c.capacity),
                        cost |-> costText(TheRow(c.cost)),
                        registration_type |-> TheRow(c.registration_type)]
            IN IF usersById(TheRow(c.speaker_id)) = {}
               THEN ThrowsAfter(c, ForeignKeyViolation,
                       [db EXCEPT !.nextSeminarId = nextSeminarId + 1])
               ELSE Finishes(c, {seminarResult(row)}, FALSE,
                       [db EXCEPT !.seminars = seminars \cup {row},
                                  !.nextSeminarId = nextSeminarId + 1])

(* updateSeminar statement by statement: the seminar is looked up, the     *)
(* speaker read and checked when one is given, then the row is updated     *)
(* with the fields given. An update without a field is refused before it   *)
(* reaches the store; an update that finds the row gone returns null.      *)
updateSeminarStep(c) ==
    CASE c.pc = "seminar" ->
            IF seminarsById(c.seminar_id) = {}
            THEN Finishes(c, NoRows, FALSE, db)
            ELSE IF c.speaker_id # {} THEN Goes(c, "speaker")
            ELSE IF c.capacity = {} /\ c.cost = {} /\ c.registration_type = {}
                    /\ ~c.payload
            THEN Throws(c, NoValuesToSet)
            ELSE Goes(c, "update")
      [] c.pc = "speaker" ->
            IF updateSpeakerError(TheRow(c.speaker_id)) # NoError
            THEN Throws(c, updateSpeakerError(TheRow(c.speaker_id)))
            ELSE Goes(c, "update")
      [] OTHER ->
            LET target == seminarsById(c.seminar_id)
                result == {updateSeminarRow(s, c.speaker_id, c.capacity, c.cost,
                                            c.registration_type) : s \in target}
            IN IF target # {} /\ c.speaker_id # {}
                  /\ usersById(TheRow(c.speaker_id)) = {}
               THEN Throws(c, ForeignKeyViolation)
               ELSE Finishes(c, {seminarResult(s) : s \in result}, FALSE,
                       [db EXCEPT !.seminars = (seminars \ target) \cup result])

(* updateUser statement by statement: the user is read, then updated with  *)
(* the fields given. With no field given the row that was read is          *)
(* returned; `payload` says whether a field not carried (name, password)   *)
(* is given.                                                               *)
updateUserStep(c) ==
    CASE c.pc = "user" ->
            IF usersById(c.user_id) = {}
            THEN Finishes(c, NoRows, FALSE, db)
            ELSE IF c.email = {} /\ c.role = {} /\ ~c.payload
            THEN Finishes(c, usersById(c.user_id), FALSE, db)
            ELSE Goes(c, "update")
      [] OTHER ->
            LET target == usersById(c.user_id)
                result == {[u EXCEPT !.email = Given(c.email, u.email),
                                     !.role = Given(c.role, u.role)] :
                              u \in target}
            IN IF target # {} /\ \E u \in users \ target : {u.email} = c.email
               THEN Throws(c, DuplicateEmail)
               ELSE Finishes(c, result, FALSE,
                       [db EXCEPT !.users = (users \ target) \cup result])

(* A store that does not enforce the foreign keys of the registrations.    *)
registrationsReferencedNever(ids) == FALSE

(* attendance.registration_id and certificates.registration_id reference   *)
(* registrations.id, registrations.seminar_id references seminars.id, all  *)
(* without ON DELETE: a delete of a referenced row is refused.             *)

registrationsReferenced(ids) ==
    \/ \E a \in attendance : a.registration_id \in ids
    \/ \E x \in certificates : x.registration_id \in ids

seminarReferenced(id) == \E r \in registrations : r.seminar_id = id

(* A fault of the cascade: the registrations are deleted first, their      *)
(* certificates and attendance afterwards.                                 *)
deleteSeminarStepParentsFirst(c, regId) ==
    CASE c.pc = "seminar" ->
            IF seminarsById(c.seminar_id) = {}
            THEN Finishes(c, NoRows, FALSE, db)
            ELSE Goes(c, "registrations")
      [] c.pc = "registrations" ->
            LET registrationIds == {r.id : r \in registrationsBySeminar(c.seminar_id)}
            IN IF registrationIds = {} THEN Goes(c, "deleteSeminar")
               ELSE Goes([c EXCEPT !.ids = registrationIds,
                                   !.todo = registrationIds], "deleteRegistrations")
      [] c.pc = "deleteRegistrations" ->
            IF registrationsReferenced(
                  {r.id : r \in registrationsBySeminar(c.seminar_id)})
            THEN Throws(c, ForeignKeyViolation)
            ELSE StepResult([c EXCEPT !.pc = "certificates"],
                    [db EXCEPT !.registrations =
                        registrations \ registrationsBySeminar(c.seminar_id)])
      [] c.pc = "certificates" ->
            StepResult([c EXCEPT !.todo = IF c.todo = {regId} THEN c.ids
                                          ELSE c.todo \ {regId},
                                 !.pc = IF c.todo = {regId} THEN "attendance"
                                        ELSE "certificates"],
               [db EXCEPT !.certificates =
                   {x \in certificates : x.registration_id # regId}])
      [] c.pc = "attendance" ->
            StepResult([c EXCEPT !.todo = c.todo \ {regId},
                                 !.pc = IF c.todo = {regId} THEN "deleteSeminar"
                                        ELSE "attendance"],
               [db EXCEPT !.attendance =
                   {a \in attendance : a.registration_id # regId}])
      [] OTHER ->
            IF seminarReferenced(c.seminar_id)
            THEN Throws(c, ForeignKeyViolation)
            ELSE Finishes(c, NoRows, TRUE,
                    [db EXCEPT !.seminars = seminars \ seminarsById(c.seminar_id)])

(* deleteSeminar statement by statement: the seminar, its registrations,   *)
(* one delete of certificates per registration id, one delete of           *)
(* attendance per registration id, the delete of the registrations, the    *)
(* delete of the seminar. regId is the id the running loop is at.          *)
deleteSeminarStep(c, regId) ==
    CASE c.pc = "seminar" ->
            IF seminarsById(c.seminar_id) = {}
            THEN Finishes(c, NoRows, FALSE, db)
            ELSE Goes(c, "registrations")
      [] c.pc = "registrations" ->
            LET registrationIds == {r.id : r \in registrationsBySeminar(c.seminar_id)}
            IN IF registrationIds = {} THEN Goes(c, "deleteSeminar")
               ELSE Goes([c EXCEPT !.ids = registrationIds,
                                   !.todo = registrationIds], "certificates")
      [] c.pc = "certificates" ->
            StepResult([c EXCEPT !.todo = IF c.todo = {regId} THEN c.ids
                                          ELSE c.todo \ {regId},
                                 !.pc = IF c.todo = {regId} THEN "attendance"
                                        ELSE "certificates"],
               [db EXCEPT !.certificates =
                   {x \in certificates : x.registration_id # regId}])
      [] c.pc = "attendance" ->
            StepResult([c EXCEPT !.todo = c.todo \ {regId},
                                 !.pc = IF c.todo = {regId} THEN "deleteRegistrations"
                                        ELSE "attendance"],
               [db EXCEPT !.attendance =
                   {a \in attendance : a.registration_id # regId}])
      [] c.pc = "deleteRegistrations" ->
            IF registrationsReferenced(
                  {r.id : r \in registrationsBySeminar(c.seminar_id)})
            THEN Throws(c, ForeignKeyViolation)
            ELSE StepResult([c EXCEPT !.pc = "deleteSeminar"],
                    [db EXCEPT !.registrations =
                        registrations \ registrationsBySeminar(c.seminar_id)])
      [] OTHER ->
            IF seminarReferenced(c.seminar_id)
            THEN Throws(c, ForeignKeyViolation)
            ELSE Finishes(c, NoRows, TRUE,
                    [db EXCEPT !.seminars = seminars \ seminarsById(c.seminar_id)])

(* A call arrives in a free slot, takes its steps, and leaves the slot     *)
(* when its result has been delivered.                                     *)
Begin(p, c) ==
    /\ calls[p].pc = "idle"
    /\ calls' = [calls EXCEPT ![p] = c]
    /\ UNCHANGED <<users, seminars, registrations, attendance, certificates,
                   nextUserId, nextSeminarId, nextRegistrationId,
                   nextAttendanceId, nextCertificateId, now>>

Takes(p, s) ==
    /\ WithinBounds(s)
    /\ s.db.nextAttendanceId <= MaxAttendance + 1
    /\ s.db.nextCertificateId <= MaxCertificates + 1
    /\ Write(s.db)
    /\ calls' = [calls EXCEPT ![p] = s.call]
    /\ UNCHANGED now

InFlight(p, op) == calls[p].op = op /\ calls[p].pc \notin {"idle", "done"}

BeginCreateRegistration(p) ==
    \E s \in SeminarIds, u \in UserIds, st \in registrationStatusEnum :
        Begin(p, [Idle EXCEPT !.op = "createRegistration", !.pc = "participant",
                              !.seminar_id = s, !.participant_id = u,
                              !.status = st])
BeginUpdateAttendance(p) ==
    \E r \in RegistrationIds, a \in BOOLEAN :
        Begin(p, [Idle EXCEPT !.op = "updateAttendance", !.pc = "registration",
                              !.registration_id = r, !.attended = a])
BeginGenerateCertificate(p) ==
    \E r \in RegistrationIds :
        Begin(p, [Idle EXCEPT !.op = "generateCertificate", !.pc = "registration",
                              !.registration_id = r])
BeginDeleteSeminar(p) ==
    \E s \in SeminarIds :
        Begin(p, [Idle EXCEPT !.op = "deleteSeminar", !.pc = "seminar",
                              !.seminar_id = s])

(* A createSeminar request whose fields are drawn from the sets given.      *)
BeginCreateSeminarWith(p, speakers, capacities, costs, types) ==
    \E u \in speakers, c \in capacities, k \in costs, t \in types :
        Begin(p, [Idle EXCEPT !.op = "createSeminar", !.pc = "speaker",
                              !.speaker_id = {u}, !.capacity = {c},
                              !.cost = {k}, !.registration_type = {t}])
BeginCreateSeminar(p) ==
    BeginCreateSeminarWith(p, UserIds, Capacities, Nullable(Costs),
                           registrationTypeEnum)
(* An updateSeminar request whose id and optional fields are drawn from    *)
(* the sets given.                                                         *)
BeginUpdateSeminarWith(p, ids, speakers, capacities, costs, types, payloads) ==
    \E s \in ids, u \in speakers, c \in capacities, k \in costs, t \in types,
       payload \in payloads :
        Begin(p, [Idle EXCEPT !.op = "updateSeminar", !.pc = "seminar",
                              !.seminar_id = s, !.speaker_id = u,
                              !.capacity = c, !.cost = k,
                              !.registration_type = t, !.payload = payload])
BeginUpdateSeminar(p) ==
    BeginUpdateSeminarWith(p, SeminarIds, Optional(UserIds),
                           Optional(Capacities), Optional(Nullable(Costs)),
                           Optional(registrationTypeEnum), BOOLEAN)
BeginUpdateUser(p) ==
    \E u \in UserIds, email \in Optional(Emails),
       role \in Optional(userRoleEnum), payload \in BOOLEAN :
        Begin(p, [Idle EXCEPT !.op = "updateUser", !.pc = "user",
                              !.user_id = u, !.email = email, !.role = role,
                              !.payload = payload])

(* The handlers of one statement, as calls in flight.                      *)
BeginCreateUser(p) ==
    \E email \in Emails, role \in userRoleEnum :
        Begin(p, [Idle EXCEPT !.op = "createUser", !.pc = "insert",
                              !.email = {email}, !.role = {role}])
BeginDeleteUser(p) ==
    \E u \in UserIds :
        Begin(p, [Idle EXCEPT !.op = "deleteUser", !.pc = "delete",
                              !.user_id = u])
BeginUpdateRegistrationStatus(p) ==
    \E r \in RegistrationIds, st \in registrationStatusEnum :
        Begin(p, [Idle EXCEPT !.op = "updateRegistrationStatus", !.pc = "update",
                              !.registration_id = r, !.status = st])
BeginCancelRegistration(p) ==
    \E r \in RegistrationIds, st \in registrationStatusEnum :
        Begin(p, [Idle EXCEPT !.op = "cancelRegistration", !.pc = "update",
                              !.registration_id = r, !.status = st])

StepCreateUser(p) ==
    /\ InFlight(p, "createUser")
    /\ Takes(p, Settles(calls[p],
                   createUser(TheRow(calls[p].email), TheRow(calls[p].role))))
StepDeleteUser(p) ==
    /\ InFlight(p, "deleteUser")
    /\ Takes(p, Settles(calls[p], deleteUser(calls[p].user_id)))
StepUpdateRegistrationStatus(p) ==
    /\ InFlight(p, "updateRegistrationStatus")
    /\ Takes(p, Settles(calls[p],
                   updateRegistrationStatus(calls[p].registration_id,
                                            calls[p].status)))
StepCancelRegistration(p) ==
    /\ InFlight(p, "cancelRegistration")
    /\ Takes(p, Settles(calls[p],
                   cancelRegistration(calls[p].registration_id, calls[p].status)))

StepCreateSeminar(p) ==
    InFlight(p, "createSeminar") /\ Takes(p, createSeminarStep(calls[p]))
StepUpdateSeminar(p) ==
    InFlight(p, "updateSeminar") /\ Takes(p, updateSeminarStep(calls[p]))
StepUpdateUser(p) ==
    InFlight(p, "updateUser") /\ Takes(p, updateUserStep(calls[p]))
StepCreateRegistration(p) ==
    InFlight(p, "createRegistration") /\ Takes(p, createRegistrationStep(calls[p]))
StepUpdateAttendance(p) ==
    InFlight(p, "updateAttendance") /\ Takes(p, updateAttendanceStep(calls[p]))
StepGenerateCertificate(p) ==
    InFlight(p, "generateCertificate") /\ Takes(p, generateCertificateStep(calls[p]))
StepDeleteSeminar(p) ==
    /\ InFlight(p, "deleteSeminar")
    /\ \E regId \in (IF calls[p].todo = {} THEN {0} ELSE calls[p].todo) :
          Takes(p, deleteSeminarStep(calls[p], regId))

Return(p) ==
    /\ calls[p].pc = "done"
    /\ calls' = [calls EXCEPT ![p] = Idle]
    /\ UNCHANGED <<users, seminars, registrations, attendance, certificates,
                   nextUserId, nextSeminarId, nextRegistrationId,
                   nextAttendanceId, nextCertificateId, now>>

(* A listing is one select: the call reads and returns what it read.       *)
BeginGetRegistrations(p) ==
    Begin(p, [Idle EXCEPT !.op = "getRegistrations", !.pc = "select"])
BeginGetRegistrationsByUser(p) ==
    \E u \in UserIds :
        Begin(p, [Idle EXCEPT !.op = "getRegistrationsByUser", !.pc = "select",
                              !.participant_id = u])
BeginGetRegistrationsBySeminar(p) ==
    \E s \in SeminarIds :
        Begin(p, [Idle EXCEPT !.op = "getRegistrationsBySeminar", !.pc = "select",
                              !.seminar_id = s])

StepGetRegistrations(p) ==
    /\ InFlight(p, "getRegistrations")
    /\ Takes(p, Finishes(calls[p], getRegistrations.rows, FALSE, db))
StepGetRegistrationsByUser(p) ==
    /\ InFlight(p, "getRegistrationsByUser")
    /\ Takes(p, Finishes(calls[p],
                   getRegistrationsByUser(calls[p].participant_id).rows, FALSE, db))
StepGetRegistrationsBySeminar(p) ==
    /\ InFlight(p, "getRegistrationsBySeminar")
    /\ Takes(p, Finishes(calls[p],
                   getRegistrationsBySeminar(calls[p].seminar_id).rows, FALSE, db))

(* The store fails the statement a call is about to execute: the error     *)
(* propagates to the caller, what the call wrote before stays written.     *)
StoreFailure == "store failure"
Fault(p) ==
    /\ calls[p].pc \notin {"idle", "done"}
    /\ calls' = [calls EXCEPT ![p] = Throws(calls[p], StoreFailure).call]
    /\ UNCHANGED <<users, seminars, registrations, attendance, certificates,
                   nextUserId, nextSeminarId, nextRegistrationId,
                   nextAttendanceId, nextCertificateId, now>>

(* ------------------------------ Next ----------------------------------- *)
(* The whole program from the empty database: requests arrive while        *)
(* others are in flight, and the statements of the calls in flight execute *)
(* in any order.                                                           *)
Next ==
    \/ Tick
    \/ \E p \in Procs : BeginCreateUser(p)
    \/ \E p \in Procs : BeginUpdateUser(p)
    \/ \E p \in Procs : BeginDeleteUser(p)
    \/ \E p \in Procs : BeginCreateSeminar(p)
    \/ \E p \in Procs : BeginUpdateSeminar(p)
    \/ \E p \in Procs : BeginDeleteSeminar(p)
    \/ \E p \in Procs : BeginCreateRegistration(p)
    \/ \E p \in Procs : BeginUpdateRegistrationStatus(p)
    \/ \E p \in Procs : BeginCancelRegistration(p)
    \/ \E p \in Procs : BeginUpdateAttendance(p)
    \/ \E p \in Procs : BeginGenerateCertificate(p)
    \/ \E p \in Procs : BeginGetRegistrations(p)
    \/ \E p \in Procs : BeginGetRegistrationsByUser(p)
    \/ \E p \in Procs : BeginGetRegistrationsBySeminar(p)
    \/ \E p \in Procs : StepCreateUser(p)
    \/ \E p \in Procs : StepUpdateUser(p)
    \/ \E p \in Procs : StepDeleteUser(p)
    \/ \E p \in Procs : StepCreateSeminar(p)
    \/ \E p \in Procs : StepUpdateSeminar(p)
    \/ \E p \in Procs : StepDeleteSeminar(p)
    \/ \E p \in Procs : StepCreateRegistration(p)
    \/ \E p \in Procs : StepUpdateRegistrationStatus(p)
    \/ \E p \in Procs : StepCancelRegistration(p)
    \/ \E p \in Procs : StepUpdateAttendance(p)
    \/ \E p \in Procs : StepGenerateCertificate(p)
    \/ \E p \in Procs : StepGetRegistrations(p)
    \/ \E p \in Procs : StepGetRegistrationsByUser(p)
    \/ \E p \in Procs : StepGetRegistrationsBySeminar(p)
    \/ \E p \in Procs : Return(p)

Spec == Init /\ [][Next]_vars

(* The scenarios below start from a fixture and draw the inputs of the     *)
(* requests from the sets named with each arrival.                         *)

(* FixtureCertified: on the two fixture seminars participant 2 has         *)
(* registered for the free seminar, was marked attended and was issued the *)
(* certificate, as createRegistration, updateAttendance and                *)
(* generateCertificate leave them.                                         *)
FixtureCertified ==
    /\ users = {[id |-> 1, email |-> 1, role |-> "speaker"],
                [id |-> 2, email |-> 2, role |-> "participant"],
                [id |-> 3, email |-> 3, role |-> "participant"]}
    /\ seminars = {[id |-> 1, speaker_id |-> 1, capacity |-> 2,
                    registration_type |-> "free", cost |-> {}],
                   [id |-> 2, speaker_id |-> 1, capacity |-> 1,
                    registration_type |-> "approval_required",
                    cost |-> {toString(1)}]}
    /\ registrations = {[id |-> 1, seminar_id |-> 1, participant_id |-> 2,
                         registration_date |-> 0, status |-> "approved",
                         created_at |-> 0]}
    /\ attendance = {[id |-> 1, registration_id |-> 1, attended |-> TRUE,
                      attendance_date |-> 0, created_at |-> 0]}
    /\ certificates = {[id |-> 1, registration_id |-> 1, issue_date |-> 0,
                        certificate_url |-> certificateUrl(1, 0),
                        created_at |-> 0]}
    /\ nextUserId = 4
    /\ nextSeminarId = 3
    /\ nextRegistrationId = 2
    /\ nextAttendanceId = 2
    /\ nextCertificateId = 2
    /\ now = 0
    /\ calls = [p \in Procs |-> Idle]

(* FixtureTwoCertified: both participants have registered for the free     *)
(* seminar, were marked attended and were issued their certificates.       *)
FixtureTwoCertified ==
    /\ users = {[id |-> 1, email |-> 1, role |-> "speaker"],
                [id |-> 2, email |-> 2, role |-> "participant"],
                [id |-> 3, email |-> 3, role |-> "participant"]}
    /\ seminars = {[id |-> 1, speaker_id |-> 1, capacity |-> 2,
                    registration_type |-> "free", cost |-> {}],
                   [id |-> 2, speaker_id |-> 1, capacity |-> 1,
                    registration_type |-> "approval_required",
                    cost |-> {toString(1)}]}
    /\ registrations = {[id |-> r, seminar_id |-> 1, participant_id |-> r + 1,
                         registration_date |-> 0, status |-> "approved",
                         created_at |-> 0] : r \in {1, 2}}
    /\ attendance = {[id |-> r, registration_id |-> r, attended |-> TRUE,
                      attendance_date |-> 0, created_at |-> 0] : r \in {1, 2}}
    /\ certificates = {[id |-> r, registration_id |-> r, issue_date |-> 0,
                        certificate_url |-> certificateUrl(r, 0),
                        created_at |-> 0] : r \in {1, 2}}
    /\ nextUserId = 4
    /\ nextSeminarId = 3
    /\ nextRegistrationId = 3
    /\ nextAttendanceId = 3
    /\ nextCertificateId = 3
    /\ now = 0
    /\ calls = [p \in Procs |-> Idle]

(* FixtureOneCertified: both participants have registered for the free     *)
(* seminar and were marked attended, and the first was issued the          *)
(* certificate.                                                            *)
FixtureOneCertified ==
    /\ users = {[id |-> 1, email |-> 1, role |-> "speaker"],
                [id |-> 2, email |-> 2, role |-> "participant"],
                [id |-> 3, email |-> 3, role |-> "participant"]}
    /\ seminars = {[id |-> 1, speaker_id |-> 1, capacity |-> 2,
                    registration_type |-> "free", cost |-> {}],
                   [id |-> 2, speaker_id |-> 1, capacity |-> 1,
                    registration_type |-> "approval_required",
                    cost |-> {toString(1)}]}
    /\ registrations = {[id |-> r, seminar_id |-> 1, participant_id |-> r + 1,
                         registration_date |-> 0, status |-> "approved",
                         created_at |-> 0] : r \in {1, 2}}
    /\ attendance = {[id |-> r, registration_id |-> r, attended |-> TRUE,
                      attendance_date |-> 0, created_at |-> 0] : r \in {1, 2}}
    /\ certificates = {[id |-> 1, registration_id |-> 1, issue_date |-> 0,
                        certificate_url |-> certificateUrl(1, 0),
                        created_at |-> 0]}
    /\ nextUserId = 4
    /\ nextSeminarId = 3
    /\ nextRegistrationId = 3
    /\ nextAttendanceId = 3
    /\ nextCertificateId = 2
    /\ now = 0
    /\ calls = [p \in Procs |-> Idle]

(* FixtureTwoRegistered: both participants have registered for the free    *)
(* seminar.                                                                *)
FixtureTwoRegistered ==
    /\ users = {[id |-> 1, email |-> 1, role |-> "speaker"],
                [id |-> 2, email |-> 2, role |-> "participant"],
                [id |-> 3, email |-> 3, role |-> "participant"]}
    /\ seminars = {[id |-> 1, speaker_id |-> 1, capacity |-> 2,
                    registration_type |-> "free", cost |-> {}],
                   [id |-> 2, speaker_id |-> 1, capacity |-> 1,
                    registration_type |-> "approval_required",
                    cost |-> {toString(1)}]}
    /\ registrations = {[id |-> r, seminar_id |-> 1, participant_id |-> r + 1,
                         registration_date |-> 0, status |-> "approved",
                         created_at |-> 0] : r \in {1, 2}}
    /\ attendance = {}
    /\ certificates = {}
    /\ nextUserId = 4
    /\ nextSeminarId = 3
    /\ nextRegistrationId = 3
    /\ nextAttendanceId = 1
    /\ nextCertificateId = 1
    /\ now = 0
    /\ calls = [p \in Procs |-> Idle]

(* FixtureTwoAttended: both participants have registered for the free      *)
(* seminar and were marked attended.                                       *)
FixtureTwoAttended ==
    /\ users = {[id |-> 1, email |-> 1, role |-> "speaker"],
                [id |-> 2, email |-> 2, role |-> "participant"],
                [id |-> 3, email |-> 3, role |-> "participant"]}
    /\ seminars = {[id |-> 1, speaker_id |-> 1, capacity |-> 2,
                    registration_type |-> "free", cost |-> {}],
                   [id |-> 2, speaker_id |-> 1, capacity |-> 1,
                    registration_type |-> "approval_required",
                    cost |-> {toString(1)}]}
    /\ registrations = {[id |-> r, seminar_id |-> 1, participant_id |-> r + 1,
                         registration_date |-> 0, status |-> "approved",
                         created_at |-> 0] : r \in {1, 2}}
    /\ attendance = {[id |-> r, registration_id |-> r, attended |-> TRUE,
                      attendance_date |-> 0, created_at |-> 0] : r \in {1, 2}}
    /\ certificates = {}
    /\ nextUserId = 4
    /\ nextSeminarId = 3
    /\ nextRegistrationId = 3
    /\ nextAttendanceId = 3
    /\ nextCertificateId = 1
    /\ now = 0
    /\ calls = [p \in Procs |-> Idle]

(* The registration workflow: the two participants register for the       *)
(* seminar that requires approval and has one seat, registrations are      *)
(* paid for and cancelled, and the seminar is retyped to payment_required. *)
NextWorkflow ==
    \/ \E p \in Procs :
          /\ BeginCreateRegistration(p)
          /\ calls'[p].seminar_id = 2
          /\ calls'[p].participant_id \in {2, 3}
          /\ calls'[p].status = "paid"
    \/ \E p \in Procs :
          /\ BeginUpdateRegistrationStatus(p)
          /\ calls'[p].status \in {"paid", "cancelled"}
    \/ \E p \in Procs :
          /\ BeginCancelRegistration(p)
          /\ calls'[p].registration_id = 1
          /\ calls'[p].status = "pending"
    \/ \E p \in Procs :
          BeginUpdateSeminarWith(p, {2}, {{}}, {{}}, {{}},
                                 {{"payment_required"}}, {FALSE})
    \/ \E p \in Procs : StepCreateRegistration(p)
    \/ \E p \in Procs : StepUpdateRegistrationStatus(p)
    \/ \E p \in Procs : StepCancelRegistration(p)
    \/ \E p \in Procs : StepUpdateSeminar(p)
    \/ \E p \in Procs : Return(p)

SpecWorkflow == FixtureSeminars /\ [][NextWorkflow]_vars

(* The two participants register for the free seminar and the first        *)
(* registration is cancelled, while an administrator makes the first       *)
(* participant a speaker and a participant again.                          *)
NextRoles ==
    \/ \E p \in Procs :
          /\ BeginUpdateUser(p)
          /\ calls'[p].user_id = 2
          /\ calls'[p].email = {}
          /\ calls'[p].role \in {{"speaker"}, {"participant"}}
          /\ ~calls'[p].payload
    \/ \E p \in Procs :
          /\ BeginCreateRegistration(p)
          /\ calls'[p].seminar_id = 1
          /\ calls'[p].participant_id \in {2, 3}
          /\ calls'[p].status = "pending"
    \/ \E p \in Procs :
          /\ BeginCancelRegistration(p)
          /\ calls'[p].registration_id = 1
          /\ calls'[p].status = "pending"
    \/ \E p \in Procs : StepUpdateUser(p)
    \/ \E p \in Procs : StepCreateRegistration(p)
    \/ \E p \in Procs : StepCancelRegistration(p)
    \/ \E p \in Procs : Return(p)

SpecRoles == FixtureSeminars /\ [][NextRoles]_vars

(* The life of a registration next to a registration that holds its        *)
(* certificate: the participants register for the seminar that requires    *)
(* approval, registrations are approved, rejected and cancelled.           *)
NextLifecycle ==
    \/ \E p \in Procs :
          /\ BeginCreateRegistration(p)
          /\ calls'[p].seminar_id = 2
          /\ calls'[p].participant_id \in {2, 3}
          /\ calls'[p].status = "approved"
    \/ \E p \in Procs :
          /\ BeginUpdateRegistrationStatus(p)
          /\ calls'[p].status \in {"approved", "rejected"}
    \/ \E p \in Procs :
          /\ BeginCancelRegistration(p)
          /\ calls'[p].status = "approved"
    \/ \E p \in Procs : StepCreateRegistration(p)
    \/ \E p \in Procs : StepUpdateRegistrationStatus(p)
    \/ \E p \in Procs : StepCancelRegistration(p)
    \/ \E p \in Procs : Return(p)

SpecLifecycle == FixtureCertified /\ [][NextLifecycle]_vars

(* A participant registers for the free seminar with two seats, is marked  *)
(* attended and asks for the certificate, while the clock advances.        *)
NextJourney ==
    \/ Tick
    \/ \E p \in Procs :
          /\ BeginCreateRegistration(p)
          /\ calls'[p].seminar_id = 1
          /\ calls'[p].participant_id = 2
          /\ calls'[p].status = "pending"
    \/ \E p \in Procs :
          /\ BeginUpdateAttendance(p)
          /\ calls'[p].registration_id = 1
          /\ calls'[p].attended
    \/ \E p \in Procs :
          /\ BeginGenerateCertificate(p)
          /\ calls'[p].registration_id = 1
    \/ \E p \in Procs : StepCreateRegistration(p)
    \/ \E p \in Procs : StepUpdateAttendance(p)
    \/ \E p \in Procs : StepGenerateCertificate(p)
    \/ \E p \in Procs : Return(p)

SpecJourney == FixtureSeminars /\ [][NextJourney]_vars

(* Attendance is taken for the two registered participants while the       *)
(* clock advances; the first registration is cancelled and the second is   *)
(* made pending.                                                           *)
NextAttendance ==
    \/ Tick
    \/ \E p \in Procs : BeginUpdateAttendance(p)
    \/ \E p \in Procs :
          /\ BeginCancelRegistration(p)
          /\ calls'[p].registration_id = 1
          /\ calls'[p].status = "pending"
    \/ \E p \in Procs :
          /\ BeginUpdateRegistrationStatus(p)
          /\ calls'[p].registration_id = 2
          /\ calls'[p].status = "pending"
    \/ \E p \in Procs : StepUpdateAttendance(p)
    \/ \E p \in Procs : StepCancelRegistration(p)
    \/ \E p \in Procs : StepUpdateRegistrationStatus(p)
    \/ \E p \in Procs : Return(p)

SpecAttendance == FixtureTwoRegistered /\ [][NextAttendance]_vars

(* Certificates are requested for the two participants marked attended    *)
(* while the clock advances; the attendance of the first is set to false,  *)
(* the first registration is cancelled and the second rejected.            *)
NextClock ==
    \/ Tick
    \/ \E p \in Procs : BeginGenerateCertificate(p)
    \/ \E p \in Procs :
          /\ BeginUpdateAttendance(p)
          /\ calls'[p].registration_id = 1
          /\ ~calls'[p].attended
    \/ \E p \in Procs :
          /\ BeginCancelRegistration(p)
          /\ calls'[p].registration_id = 1
          /\ calls'[p].status = "pending"
    \/ \E p \in Procs :
          /\ BeginUpdateRegistrationStatus(p)
          /\ calls'[p].registration_id = 2
          /\ calls'[p].status = "rejected"
    \/ \E p \in Procs : StepGenerateCertificate(p)
    \/ \E p \in Procs : StepUpdateAttendance(p)
    \/ \E p \in Procs : StepCancelRegistration(p)
    \/ \E p \in Procs : StepUpdateRegistrationStatus(p)
    \/ \E p \in Procs : Return(p)

SpecClock == FixtureTwoAttended /\ [][NextClock]_vars

(* The same requests when the first participant holds the certificate and  *)
(* the second has yet to be issued one.                                    *)
SpecPersist == FixtureOneCertified /\ [][NextClock]_vars

(* Both participants hold their certificates. Certificates are requested   *)
(* again while the clock advances; the first registration is cancelled and *)
(* its attendance taken again, the second is made pending and paid.        *)
NextReissue ==
    \/ Tick
    \/ \E p \in Procs : BeginGenerateCertificate(p)
    \/ \E p \in Procs :
          /\ BeginUpdateRegistrationStatus(p)
          /\ calls'[p].registration_id = 2
          /\ calls'[p].status \in {"pending", "paid"}
    \/ \E p \in Procs :
          /\ BeginCancelRegistration(p)
          /\ calls'[p].registration_id = 1
          /\ calls'[p].status = "pending"
    \/ \E p \in Procs :
          /\ BeginUpdateAttendance(p)
          /\ calls'[p].registration_id = 1
    \/ \E p \in Procs : StepGenerateCertificate(p)
    \/ \E p \in Procs : StepUpdateRegistrationStatus(p)
    \/ \E p \in Procs : StepCancelRegistration(p)
    \/ \E p \in Procs : StepUpdateAttendance(p)
    \/ \E p \in Procs : Return(p)

SpecReissue == FixtureTwoCertified /\ [][NextReissue]_vars

(* Every operation on seminars and registrations on the fixture with one   *)
(* seminar: a second seminar is created at a cost, the first is resized,   *)
(* made free of cost and deleted, the first participant registers for it,  *)
(* the registration is approved and cancelled, marked attended and         *)
(* certified.                                                              *)
NextOperations ==
    \/ \E p \in Procs : BeginCreateSeminarWith(p, {1}, {1}, {{1}}, {"free"})
    \/ \E p \in Procs :
          BeginUpdateSeminarWith(p, {1}, {{}}, {{1}}, {{{}}}, {{}}, {FALSE})
    \/ \E p \in Procs :
          /\ BeginDeleteSeminar(p)
          /\ calls'[p].seminar_id = 1
    \/ \E p \in Procs :
          /\ BeginCreateRegistration(p)
          /\ calls'[p].seminar_id = 1
          /\ calls'[p].participant_id = 2
          /\ calls'[p].status = "pending"
    \/ \E p \in Procs :
          /\ BeginUpdateRegistrationStatus(p)
          /\ calls'[p].registration_id = 1
          /\ calls'[p].status = "approved"
    \/ \E p \in Procs :
          /\ BeginCancelRegistration(p)
          /\ calls'[p].registration_id = 1
          /\ calls'[p].status = "pending"
    \/ \E p \in Procs :
          /\ BeginUpdateAttendance(p)
          /\ calls'[p].registration_id = 1
          /\ calls'[p].attended
    \/ \E p \in Procs :
          /\ BeginGenerateCertificate(p)
          /\ calls'[p].registration_id = 1
    \/ \E p \in Procs : StepCreateSeminar(p)
    \/ \E p \in Procs : StepUpdateSeminar(p)
    \/ \E p \in Procs : StepDeleteSeminar(p)
    \/ \E p \in Procs : StepCreateRegistration(p)
    \/ \E p \in Procs : StepUpdateRegistrationStatus(p)
    \/ \E p \in Procs : StepCancelRegistration(p)
    \/ \E p \in Procs : StepUpdateAttendance(p)
    \/ \E p \in Procs : StepGenerateCertificate(p)
    \/ \E p \in Procs : Return(p)

SpecOperations == FixtureSeminar /\ [][NextOperations]_vars

(* The seminars are deleted while both registrations of the free seminar   *)
(* hold attendance and certificate; the first registration is cancelled    *)
(* and its attendance set to false.                                        *)
NextCascade ==
    \/ \E p \in Procs : BeginDeleteSeminar(p)
    \/ \E p \in Procs :
          /\ BeginCancelRegistration(p)
          /\ calls'[p].registration_id = 1
          /\ calls'[p].status = "pending"
    \/ \E p \in Procs :
          /\ BeginUpdateAttendance(p)
          /\ calls'[p].registration_id = 1
          /\ ~calls'[p].attended
    \/ \E p \in Procs : StepDeleteSeminar(p)
    \/ \E p \in Procs : StepCancelRegistration(p)
    \/ \E p \in Procs : StepUpdateAttendance(p)
    \/ \E p \in Procs : Return(p)

SpecCascade == FixtureTwoCertified /\ [][NextCascade]_vars

(* The same, with a store that may fail any statement of a call.           *)
NextFaults ==
    \/ NextCascade
    \/ \E p \in Procs : Fault(p)

SpecFaults == FixtureTwoCertified /\ [][NextFaults]_vars

(* Registrations in flight at the same time on the free seminar with one  *)
(* seat.                                                                   *)
NextRegistrationRace ==
    \/ \E p \in Procs :
          /\ BeginCreateRegistration(p)
          /\ calls'[p].status = "pending"
    \/ \E p \in Procs : StepCreateRegistration(p)
    \/ \E p \in Procs : Return(p)

SpecRegistrationRace == FixtureFreeSeminar /\ [][NextRegistrationRace]_vars

(* Attendance updates and certificate requests in flight at the same time  *)
(* for the registered participant, while the clock advances.               *)
NextIssueRace ==
    \/ Tick
    \/ \E p \in Procs : BeginUpdateAttendance(p)
    \/ \E p \in Procs : BeginGenerateCertificate(p)
    \/ \E p \in Procs : StepUpdateAttendance(p)
    \/ \E p \in Procs : StepGenerateCertificate(p)
    \/ \E p \in Procs : Return(p)

SpecIssueRace == FixtureRegistered /\ [][NextIssueRace]_vars

(* deleteSeminar in flight at the same time as registration, attendance    *)
(* and certificate requests.                                               *)
NextDeleteRace ==
    \/ \E p \in Procs :
          /\ BeginCreateRegistration(p)
          /\ calls'[p].status = "pending"
    \/ \E p \in Procs : BeginUpdateAttendance(p)
    \/ \E p \in Procs : BeginGenerateCertificate(p)
    \/ \E p \in Procs : BeginDeleteSeminar(p)
    \/ \E p \in Procs : StepCreateRegistration(p)
    \/ \E p \in Procs : StepUpdateAttendance(p)
    \/ \E p \in Procs : StepGenerateCertificate(p)
    \/ \E p \in Procs : StepDeleteSeminar(p)
    \/ \E p \in Procs : Return(p)

SpecDeleteRace == FixtureRegistered /\ [][NextDeleteRace]_vars
(* The first participant registers for the two fixture seminars, the      *)
(* first registration is cancelled, and the registrations are listed in    *)
(* between.                                                                *)
NextListings ==
    \/ \E p \in Procs :
          /\ BeginCreateRegistration(p)
          /\ calls'[p].participant_id = 2
          /\ calls'[p].status = "pending"
    \/ \E p \in Procs :
          /\ BeginCancelRegistration(p)
          /\ calls'[p].registration_id = 1
          /\ calls'[p].status = "pending"
    \/ \E p \in Procs : BeginGetRegistrations(p)
    \/ \E p \in Procs :
          /\ BeginGetRegistrationsByUser(p)
          /\ calls'[p].participant_id = 2
    \/ \E p \in Procs :
          /\ BeginGetRegistrationsBySeminar(p)
          /\ calls'[p].seminar_id = 1
    \/ \E p \in Procs : StepCreateRegistration(p)
    \/ \E p \in Procs : StepCancelRegistration(p)
    \/ \E p \in Procs : StepGetRegistrations(p)
    \/ \E p \in Procs : StepGetRegistrationsByUser(p)
    \/ \E p \in Procs : StepGetRegistrationsBySeminar(p)
    \/ \E p \in Procs : Return(p)

SpecListings == FixtureSeminars /\ [][NextListings]_vars

(* Both participants hold a seat of the free seminar. A fourth user is     *)
(* created and deleted, the first participant is made a speaker, the       *)
(* seminar that requires approval is deleted, and the first participant    *)
(* and the fourth user ask to register.                                    *)
NextUsers ==
    \/ \E p \in Procs :
          /\ BeginCreateUser(p)
          /\ calls'[p].email = {4}
          /\ calls'[p].role = {"participant"}
    \/ \E p \in Procs :
          /\ BeginUpdateUser(p)
          /\ calls'[p].user_id = 2
          /\ calls'[p].email = {}
          /\ calls'[p].role = {"speaker"}
          /\ ~calls'[p].payload
    \/ \E p \in Procs :
          /\ BeginDeleteUser(p)
          /\ calls'[p].user_id = 4
    \/ \E p \in Procs :
          /\ BeginDeleteSeminar(p)
          /\ calls'[p].seminar_id = 2
    \/ \E p \in Procs :
          /\ BeginCreateRegistration(p)
          /\ calls'[p].participant_id \in {2, 4}
          /\ calls'[p].status = "pending"
    \/ \E p \in Procs : StepCreateUser(p)
    \/ \E p \in Procs : StepUpdateUser(p)
    \/ \E p \in Procs : StepDeleteUser(p)
    \/ \E p \in Procs : StepDeleteSeminar(p)
    \/ \E p \in Procs : StepCreateRegistration(p)
    \/ \E p \in Procs : Return(p)

SpecUsers == FixtureTwoRegistered /\ [][NextUsers]_vars

(* The accounts: a fourth user is created, the third user is edited in     *)
(* address and users are deleted, while the participants register for the  *)
(* free seminar.                                                           *)
NextAccounts ==
    \/ \E p \in Procs :
          /\ BeginCreateUser(p)
          /\ calls'[p].email \in {{3}, {4}}
          /\ calls'[p].role = {"participant"}
    \/ \E p \in Procs :
          /\ BeginUpdateUser(p)
          /\ calls'[p].user_id = 3
          /\ calls'[p].email \in {{2}, {4}}
          /\ calls'[p].role = {}
          /\ ~calls'[p].payload
    \/ \E p \in Procs : BeginDeleteUser(p)
    \/ \E p \in Procs :
          /\ BeginCreateRegistration(p)
          /\ calls'[p].seminar_id = 1
          /\ calls'[p].participant_id \in {2, 3}
          /\ calls'[p].status = "pending"
    \/ \E p \in Procs : StepCreateUser(p)
    \/ \E p \in Procs : StepUpdateUser(p)
    \/ \E p \in Procs : StepDeleteUser(p)
    \/ \E p \in Procs : StepCreateRegistration(p)
    \/ \E p \in Procs : Return(p)

SpecAccounts == FixtureFreeSeminar /\ [][NextAccounts]_vars

(* The speaker of the fixture holds a free seminar. Requests in flight at  *)
(* the same time create another free seminar for one of the first two      *)
(* users, give a seminar another speaker, give the first two users another *)
(* role, and delete the first user.                                        *)
NextSeminarRace ==
    \/ \E p \in Procs : BeginCreateSeminarWith(p, {1, 2}, {1}, {{}}, {"free"})
    \/ \E p \in Procs :
          BeginUpdateSeminarWith(p, SeminarIds, {{}, {1}, {2}, {4}}, {{}}, {{}},
                                 {{}}, BOOLEAN)
    \/ \E p \in Procs :
          /\ BeginUpdateUser(p)
          /\ calls'[p].user_id <= 2
          /\ calls'[p].email = {}
          /\ calls'[p].role \in {{"speaker"}, {"participant"}}
          /\ ~calls'[p].payload
    \/ \E p \in Procs :
          /\ BeginDeleteUser(p)
          /\ calls'[p].user_id = 1
    \/ \E p \in Procs : StepCreateSeminar(p)
    \/ \E p \in Procs : StepUpdateSeminar(p)
    \/ \E p \in Procs : StepUpdateUser(p)
    \/ \E p \in Procs : StepDeleteUser(p)
    \/ \E p \in Procs : Return(p)

SpecSeminarRace == FixtureFreeSeminar /\ [][NextSeminarRace]_vars

(* Users are created as participants and the first two users edited in     *)
(* address, all in flight at the same time.                                *)
NextAccountRace ==
    \/ \E p \in Procs :
          /\ BeginCreateUser(p)
          /\ calls'[p].role = {"participant"}
    \/ \E p \in Procs :
          /\ BeginUpdateUser(p)
          /\ calls'[p].user_id <= 2
          /\ calls'[p].role = {}
    \/ \E p \in Procs : StepCreateUser(p)
    \/ \E p \in Procs : StepUpdateUser(p)
    \/ \E p \in Procs : Return(p)

SpecAccountRace == Fixture /\ [][NextAccountRace]_vars

(* The registered participant: status updates and cancellations in flight  *)
(* at the same time as attendance updates and certificate requests.        *)
NextStatusRace ==
    \/ \E p \in Procs : BeginUpdateRegistrationStatus(p)
    \/ \E p \in Procs : BeginCancelRegistration(p)
    \/ \E p \in Procs :
          /\ BeginUpdateAttendance(p)
          /\ calls'[p].attended
    \/ \E p \in Procs : BeginGenerateCertificate(p)
    \/ \E p \in Procs : StepUpdateRegistrationStatus(p)
    \/ \E p \in Procs : StepCancelRegistration(p)
    \/ \E p \in Procs : StepUpdateAttendance(p)
    \/ \E p \in Procs : StepGenerateCertificate(p)
    \/ \E p \in Procs : Return(p)

SpecStatusRace == FixtureRegistered /\ [][NextStatusRace]_vars
(* ======================================================================= *)
(* The claims. What a claim says about the tables is stated here from the  *)
(* tables themselves, not through the operators of the handlers.           *)
(* ======================================================================= *)
UserExists(id) == \E u \in users : u.id = id
IsParticipant(id) == \E u \in users : u.id = id /\ u.role = "participant"
SeminarExists(id) == \E s \in seminars : s.id = id
Registered(sid, pid) ==
    \E r \in registrations : r.seminar_id = sid /\ r.participant_id = pid
ApprovedOrPaid(sid) ==
    {r \in registrations : r.seminar_id = sid /\ r.status \in {"approved", "paid"}}
NotCounted(sid) ==
    {r \in registrations :
        r.seminar_id = sid /\ r.status \in {"pending", "rejected", "cancelled"}}
CapacityOf(sid) == (CHOOSE s \in seminars : s.id = sid).capacity
TypeOf(sid) == (CHOOSE s \in seminars : s.id = sid).registration_type

(* An existing participant, not yet registered for an existing seminar.    *)
MayRegister(sid, pid) ==
    IsParticipant(pid) /\ SeminarExists(sid) /\ ~Registered(sid, pid)

(* What a call in flight has to do with the call served alone: when the    *)
(* checks the call has behind it still hold of the database, the statement *)
(* that ends the call ends it with the outcome of the call served alone.   *)
Agrees(step, outcome) ==
    step.call.pc = "done"
    => /\ step.call.err = outcome.err
       /\ step.call.rows = outcome.rows
       /\ step.call.flag = outcome.flag
       /\ step.db = outcome.db

createRegistrationChecked(c) ==
    /\ c.pc # "participant"
          => \E u \in usersById(c.participant_id) : u.role = "participant"
    /\ c.pc \notin {"participant", "seminar"}
          => c.read # {} /\ c.read = seminarsById(c.seminar_id)
    /\ c.pc \in {"count", "capacity", "insert"}
          => registrationsByPair(c.seminar_id, c.participant_id) = {}
    /\ c.pc = "insert"
          => activeRegistrations(c.seminar_id) < TheRow(c.read).capacity

createRegistrationAgrees ==
    \A p \in Procs :
        (InFlight(p, "createRegistration") /\ createRegistrationChecked(calls[p]))
        => Agrees(createRegistrationStep(calls[p]),
                  createRegistration(calls[p].seminar_id, calls[p].participant_id,
                                     calls[p].status))

updateAttendanceChecked(c) ==
    /\ c.pc # "registration" => updateAttendanceError(c.registration_id) = NoError
    /\ c.pc \in {"stampUpdate", "update"}
          => attendanceByRegistration(c.registration_id) # {}
    /\ c.pc \in {"stampInsert", "insert"}
          => attendanceByRegistration(c.registration_id) = {}

(* The time the statement a call is about to run carries: the time the     *)
(* call took from the clock when it built the statement, and the time of   *)
(* the clock for a call that has not built it yet.                         *)
Stamp(c) == IF c.pc \in {"update", "insert"} THEN c.stamp ELSE now

updateAttendanceAgrees ==
    \A p \in Procs :
        (InFlight(p, "updateAttendance") /\ updateAttendanceChecked(calls[p]))
        => Agrees(updateAttendanceStep(calls[p]),
                  updateAttendanceAt(calls[p].registration_id, calls[p].attended,
                                     Stamp(calls[p])))

generateCertificateChecked(c) ==
    /\ c.pc # "registration"
          => \E r \in registrationResults(c.registration_id) :
                r.status \notin {"pending", "rejected", "cancelled"}
    /\ c.pc \in {"existing", "timestamp", "insert"}
          => \E a \in attendanceByRegistration(c.registration_id) : a.attended
    /\ c.pc \in {"timestamp", "insert"}
          => certificatesByRegistration(c.registration_id) = {}

generateCertificateAgrees ==
    \A p \in Procs :
        (InFlight(p, "generateCertificate") /\ generateCertificateChecked(calls[p]))
        => Agrees(generateCertificateStep(calls[p]),
                  generateCertificateAt(calls[p].registration_id,
                                        Stamp(calls[p])))

updateSeminarChecked(c) ==
    /\ c.pc # "seminar" => seminarsById(c.seminar_id) # {}
    /\ (c.pc = "update" /\ c.speaker_id # {})
          => updateSpeakerError(TheRow(c.speaker_id)) = NoError

updateSeminarAgrees ==
    \A p \in Procs :
        (InFlight(p, "updateSeminar") /\ updateSeminarChecked(calls[p]))
        => Agrees(updateSeminarStep(calls[p]),
                  updateSeminar(calls[p].seminar_id, calls[p].speaker_id,
                                calls[p].capacity, calls[p].cost,
                                calls[p].registration_type, calls[p].payload))

(* Every seminar of the database `d` holds at most as many approved or     *)
(* paid registrations as it has seats.                                     *)
WithinCapacity(d) ==
    \A s \in d.seminars :
        Cardinality({r \in d.registrations :
                        r.seminar_id = s.id /\ r.status \in {"approved", "paid"}})
           <= s.capacity

(* C1: for every seminar the number of its registrations with status       *)
(* approved or paid never exceeds the seminar's capacity: no completed     *)
(* createRegistration, updateRegistrationStatus, cancelRegistration,       *)
(* updateSeminar or deleteSeminar call takes a database that is within     *)
(* capacity to one that is not.                                            *)
C1_CapacityNeverExceeded ==
    WithinCapacity(db)
    => /\ \A sid \in SeminarIds, pid \in UserIds, st \in registrationStatusEnum :
             WithinCapacity(createRegistration(sid, pid, st).db)
       /\ \A rid \in RegistrationIds, st \in registrationStatusEnum :
             /\ WithinCapacity(updateRegistrationStatus(rid, st).db)
             /\ WithinCapacity(cancelRegistration(rid, st).db)
       /\ \A sid \in SeminarIds, c \in Optional(Capacities),
             k \in Optional(Nullable(Costs)),
             ty \in Optional(registrationTypeEnum) :
             WithinCapacity(updateSeminar(sid, {}, c, k, ty, FALSE).db)
       /\ \A sid \in SeminarIds : WithinCapacity(deleteSeminar(sid).db)

(* C2: when the approved + paid count of the seminar has reached its       *)
(* capacity, createRegistration by an eligible participant who is not yet  *)
(* registered throws 'Seminar is at capacity' and inserts no row. A call   *)
(* in flight whose checks still hold ends as the call served alone.        *)
C2_FullSeminarRejects ==
    /\ \A sid \in SeminarIds, pid \in UserIds, st \in registrationStatusEnum :
           (MayRegister(sid, pid)
            /\ Cardinality(ApprovedOrPaid(sid)) >= CapacityOf(sid))
           => /\ createRegistration(sid, pid, st).err = AtCapacity
              /\ createRegistration(sid, pid, st).db = db
    /\ createRegistrationAgrees

(* A full seminar (one of its seats taken by a paid registration), a       *)
(* participant whose registration would be refused for it, and a call that *)
(* was refused for it.                                                     *)
C2_Witness ==
    /\ \E sid \in SeminarIds, pid \in UserIds :
           /\ MayRegister(sid, pid)
           /\ Cardinality(ApprovedOrPaid(sid)) >= CapacityOf(sid)
           /\ \E r \in ApprovedOrPaid(sid) : r.status = "paid"
           /\ createRegistration(sid, pid, "pending").err = AtCapacity
    /\ \E p \in Procs :
          /\ calls[p].op = "createRegistration" /\ calls[p].pc = "done"
          /\ calls[p].err = AtCapacity

(* C3: pending, rejected and cancelled registrations do not count: while   *)
(* the approved + paid count is below the capacity, createRegistration by  *)
(* an eligible participant who is not yet registered succeeds and inserts  *)
(* the row, however many other registrations the seminar has. A call in    *)
(* flight whose checks still hold ends as the call served alone.           *)
C3_UncountedStatusesLeaveRoom ==
    /\ \A sid \in SeminarIds, pid \in UserIds, st \in registrationStatusEnum :
           (MayRegister(sid, pid)
            /\ Cardinality(ApprovedOrPaid(sid)) < CapacityOf(sid))
           => /\ createRegistration(sid, pid, st).err = NoError
              /\ \E row \in createRegistration(sid, pid, st).db.registrations :
                    /\ row \notin registrations
                    /\ row.seminar_id = sid
                    /\ row.participant_id = pid
    /\ createRegistrationAgrees

(* Capacity 1, one cancelled registration of another participant, and the  *)
(* registration of a second participant has succeeded.                     *)
C3_Witness ==
    \E sid \in SeminarIds, p \in Procs :
        /\ CapacityOf(sid) = 1
        /\ \E r \in NotCounted(sid) : r.status = "cancelled"
        /\ calls[p].op = "createRegistration" /\ calls[p].pc = "done"
        /\ calls[p].err = NoError
        /\ calls[p].seminar_id = sid
        /\ calls[p].rows \subseteq registrations
        /\ \E r \in NotCounted(sid), row \in calls[p].rows :
              /\ r.status = "cancelled"
              /\ r.id < row.id
              /\ r.participant_id # row.participant_id

(* C4: on a free seminar a successful createRegistration stores and        *)
(* returns status approved, whatever status the caller supplied. A call in *)
(* flight whose checks still hold ends as the call served alone.           *)
C4_FreeIsApproved ==
    /\ \A sid \in SeminarIds, pid \in UserIds, st \in registrationStatusEnum :
           (SeminarExists(sid) /\ TypeOf(sid) = "free"
            /\ createRegistration(sid, pid, st).err = NoError)
           => /\ \A row \in createRegistration(sid, pid, st).rows :
                    row.status = "approved"
              /\ createRegistration(sid, pid, st).rows # {}
              /\ createRegistration(sid, pid, st).rows
                    \subseteq createRegistration(sid, pid, st).db.registrations
    /\ createRegistrationAgrees

(* A call that asked for pending on a free seminar has returned and stored *)
(* its registration as approved.                                           *)
C4_Witness ==
    \E p \in Procs, row \in registrations :
        /\ calls[p].op = "createRegistration" /\ calls[p].pc = "done"
        /\ calls[p].err = NoError
        /\ calls[p].status = "pending"
        /\ calls[p].rows = {row}
        /\ TypeOf(row.seminar_id) = "free"
        /\ row.status = "approved"

(* C5: on a seminar that requires approval or payment a successful         *)
(* createRegistration stores and returns status pending, whatever status   *)
(* the caller supplied. A call in flight whose checks still hold ends as   *)
(* the call served alone.                                                  *)
C5_GatedIsPending ==
    /\ \A sid \in SeminarIds, pid \in UserIds, st \in registrationStatusEnum :
           (SeminarExists(sid)
            /\ TypeOf(sid) \in {"approval_required", "payment_required"}
            /\ createRegistration(sid, pid, st).err = NoError)
           => /\ \A row \in createRegistration(sid, pid, st).rows :
                    row.status = "pending"
              /\ createRegistration(sid, pid, st).rows # {}
              /\ createRegistration(sid, pid, st).rows
                    \subseteq createRegistration(sid, pid, st).db.registrations
    /\ createRegistrationAgrees

(* A call that asked for paid on the seminar that was retyped to           *)
(* payment_required has returned and stored its registration as pending.   *)
C5_Witness ==
    \E p \in Procs, row \in registrations :
        /\ calls[p].op = "createRegistration" /\ calls[p].pc = "done"
        /\ calls[p].err = NoError
        /\ calls[p].status = "paid"
        /\ calls[p].rows = {row}
        /\ TypeOf(row.seminar_id) = "payment_required"
        /\ TheRow(calls[p].read).registration_type = "payment_required"
        /\ row.status = "pending"
(* C6 as stated: whenever a registration of the pair exists, with any      *)
(* status, createRegistration throws 'already registered' and inserts no   *)
(* row.                                                                    *)
C6_DuplicateAlwaysReported ==
    \A sid \in SeminarIds, pid \in UserIds, st \in registrationStatusEnum :
        Registered(sid, pid)
        => /\ createRegistration(sid, pid, st).err = AlreadyRegistered
           /\ createRegistration(sid, pid, st).db = db

(* C6 amended: whenever a registration of the pair exists, with any        *)
(* status, createRegistration throws and inserts no row; the error is      *)
(* 'already registered' while the user still has the role participant, and *)
(* the error of the role check once the role was changed. A call in flight *)
(* whose checks still hold ends as the call served alone.                  *)
C6_DuplicateNeverInserted ==
    /\ \A sid \in SeminarIds, pid \in UserIds, st \in registrationStatusEnum :
           Registered(sid, pid)
           => /\ createRegistration(sid, pid, st).err # NoError
              /\ createRegistration(sid, pid, st).db = db
              /\ IsParticipant(pid)
                    => createRegistration(sid, pid, st).err = AlreadyRegistered
              /\ (UserExists(pid) /\ ~IsParticipant(pid))
                    => createRegistration(sid, pid, st).err = NotAParticipant
    /\ createRegistrationAgrees

(* A participant whose registration was cancelled has asked again and was  *)
(* refused as already registered.                                          *)
C6_Witness ==
    /\ \E r \in registrations :
           /\ r.status = "cancelled"
           /\ IsParticipant(r.participant_id)
           /\ createRegistration(r.seminar_id, r.participant_id, "pending").err
                 = AlreadyRegistered
    /\ \E p \in Procs, r \in registrations :
          /\ calls[p].op = "createRegistration" /\ calls[p].pc = "done"
          /\ calls[p].err = AlreadyRegistered
          /\ r.seminar_id = calls[p].seminar_id
          /\ r.participant_id = calls[p].participant_id
          /\ r.status = "cancelled"

(* C7: createRegistration throws and inserts no row when the participant   *)
(* id resolves to no user, when the user is not a participant, and when    *)
(* the seminar id resolves to no seminar; a call that inserts, served      *)
(* alone or in flight, references at the moment of the insert an existing  *)
(* user with the role participant and an existing seminar.                 *)
C7_ReferencesChecked ==
    /\ \A sid \in SeminarIds, pid \in UserIds, st \in registrationStatusEnum :
           /\ ~UserExists(pid)
                 => createRegistration(sid, pid, st).err = ParticipantNotFound
           /\ (UserExists(pid) /\ ~IsParticipant(pid))
                 => createRegistration(sid, pid, st).err = NotAParticipant
           /\ (IsParticipant(pid) /\ ~SeminarExists(sid))
                 => createRegistration(sid, pid, st).err = SeminarNotFound
           /\ createRegistration(sid, pid, st).err # NoError
                 => createRegistration(sid, pid, st).db = db
           /\ createRegistration(sid, pid, st).db.registrations # registrations
                 => IsParticipant(pid) /\ SeminarExists(sid)
    /\ \A p \in Procs :
          (InFlight(p, "createRegistration") /\ calls[p].pc = "insert"
           /\ createRegistrationStep(calls[p]).db.registrations # registrations)
          => /\ IsParticipant(calls[p].participant_id)
             /\ SeminarExists(calls[p].seminar_id)

(* C8: a successful createRegistration inserts exactly one row, with a new *)
(* id, the seminar and participant of the input and the initial status of  *)
(* the seminar's type, returns it, and leaves every other registration and *)
(* the users, seminars, attendance and certificates as they were. A call   *)
(* in flight whose checks still hold ends as the call served alone.        *)
C8_InsertsExactlyOneRow ==
    /\ \A sid \in SeminarIds, pid \in UserIds, st \in registrationStatusEnum :
           createRegistration(sid, pid, st).err = NoError
           => /\ \E row \in createRegistration(sid, pid, st).rows :
                    /\ createRegistration(sid, pid, st).rows = {row}
                    /\ \A r \in registrations : r.id # row.id
                    /\ createRegistration(sid, pid, st).db.registrations
                          = registrations \cup {row}
                    /\ row.seminar_id = sid
                    /\ row.participant_id = pid
                    /\ row.status = IF TypeOf(sid) = "free" THEN "approved"
                                    ELSE "pending"
              /\ createRegistration(sid, pid, st).db.users = users
              /\ createRegistration(sid, pid, st).db.seminars = seminars
              /\ createRegistration(sid, pid, st).db.attendance = attendance
              /\ createRegistration(sid, pid, st).db.certificates = certificates
    /\ createRegistrationAgrees

(* A second registration was accepted and returned while the first one has *)
(* its attendance and its certificate.                                     *)
C8_Witness ==
    /\ attendance # {}
    /\ certificates # {}
    /\ \E p \in Procs, row \in registrations :
          /\ calls[p].op = "createRegistration" /\ calls[p].pc = "done"
          /\ calls[p].err = NoError
          /\ calls[p].rows = {row}
          /\ Cardinality(registrations) = 2

(* C9: updateRegistrationStatus never throws; for an existing registration *)
(* the stored and returned status is the target, whatever the status was;  *)
(* for an unresolved id it returns null and changes nothing.               *)
C9_AnyTransitionAccepted ==
    \A id \in RegistrationIds, st \in registrationStatusEnum :
        /\ updateRegistrationStatus(id, st).err = NoError
        /\ \A r \in registrations : r.id = id =>
              /\ \E row \in updateRegistrationStatus(id, st).rows :
                    /\ updateRegistrationStatus(id, st).rows = {row}
                    /\ row.id = id
                    /\ row.status = st
                    /\ row \in updateRegistrationStatus(id, st).db.registrations
              /\ \A q \in updateRegistrationStatus(id, st).db.registrations :
                    q.id = id => q.status = st
        /\ (\A r \in registrations : r.id # id) =>
              /\ updateRegistrationStatus(id, st).rows = NoRows
              /\ updateRegistrationStatus(id, st).db = db

(* A cancelled registration that has a certificate is approved again and   *)
(* then rejected, while another id resolves to nothing.                    *)
C9_Witness ==
    /\ \E r \in registrations :
          /\ r.status = "cancelled"
          /\ \E c \in certificates : c.registration_id = r.id
          /\ \E row \in updateRegistrationStatus(r.id, "approved").db.registrations :
                row.id = r.id /\ row.status = "approved"
          /\ \E row \in updateRegistrationStatus(r.id, "rejected").db.registrations :
                row.id = r.id /\ row.status = "rejected"
    /\ \E id \in RegistrationIds :
          /\ \A r \in registrations : r.id # id
          /\ updateRegistrationStatus(id, "approved").rows = NoRows

(* C10: updateRegistrationStatus changes the status of the targeted row    *)
(* and nothing else: the row keeps its id, seminar, participant,           *)
(* registration date and creation time, and every other registration, the  *)
(* attendance and the certificates stay as they were.                      *)
C10_OnlyStatusChanges ==
    \A id \in RegistrationIds, st \in registrationStatusEnum :
        /\ \A r \in registrations : r.id # id =>
              r \in updateRegistrationStatus(id, st).db.registrations
        /\ \A r \in registrations : r.id = id =>
              \E q \in updateRegistrationStatus(id, st).db.registrations :
                  /\ q.id = r.id
                  /\ q.seminar_id = r.seminar_id
                  /\ q.participant_id = r.participant_id
                  /\ q.registration_date = r.registration_date
                  /\ q.created_at = r.created_at
        /\ Cardinality(updateRegistrationStatus(id, st).db.registrations)
              = Cardinality(registrations)
        /\ updateRegistrationStatus(id, st).db.attendance = attendance
        /\ updateRegistrationStatus(id, st).db.certificates = certificates
        /\ updateRegistrationStatus(id, st).db.users = users
        /\ updateRegistrationStatus(id, st).db.seminars = seminars

(* A registration made before the clock advanced, with its attendance and  *)
(* certificate and next to another registration, gets a new status.        *)
C10_Witness ==
    \E r \in registrations :
        /\ r.registration_date < now
        /\ \E a \in attendance : a.registration_id = r.id
        /\ \E c \in certificates : c.registration_id = r.id
        /\ \E o \in registrations : o.id # r.id
        /\ \E row \in updateRegistrationStatus(r.id, "rejected").db.registrations :
              row.id = r.id /\ row.status = "rejected" /\ r.status # "rejected"
(* What the claims on attendance and certificates say about the tables.    *)
RegistrationExists(id) == \E r \in registrations : r.id = id
StatusOf(id) == (CHOOSE r \in registrations : r.id = id).status
AttendanceOf(id) == {a \in attendance : a.registration_id = id}
CertificatesOf(id) == {c \in certificates : c.registration_id = id}
MarkedAttended(id) == \E a \in attendance : a.registration_id = id /\ a.attended

(* C11: cancelRegistration never throws; on an existing registration it    *)
(* returns true and leaves that row cancelled, whatever its status was,    *)
(* every other row as it was; on an unresolved id it returns false and     *)
(* changes nothing.                                                        *)
C11_CancelForcesCancelled ==
    \A id \in RegistrationIds, st \in registrationStatusEnum :
        /\ cancelRegistration(id, st).err = NoError
        /\ \A r \in registrations : r.id = id =>
              /\ cancelRegistration(id, st).flag = TRUE
              /\ [r EXCEPT !.status = "cancelled"]
                    \in cancelRegistration(id, st).db.registrations
              /\ \A q \in cancelRegistration(id, st).db.registrations :
                    q.id = id => q.status = "cancelled"
        /\ \A r \in registrations : r.id # id =>
              r \in cancelRegistration(id, st).db.registrations
        /\ ~RegistrationExists(id) =>
              /\ cancelRegistration(id, st).flag = FALSE
              /\ cancelRegistration(id, st).db = db

(* An already cancelled registration is cancelled again: true, and the     *)
(* database is as before; another id resolves to nothing: false.           *)
C11_Witness ==
    /\ \E r \in registrations :
          /\ r.status = "cancelled"
          /\ cancelRegistration(r.id, "approved").flag = TRUE
          /\ cancelRegistration(r.id, "approved").db = db
    /\ \E id \in RegistrationIds :
          /\ ~RegistrationExists(id)
          /\ cancelRegistration(id, "approved").flag = FALSE

(* C12: updateAttendance throws 'Registration not found' on an unresolved  *)
(* id and the approved-or-paid error on a pending, rejected or cancelled   *)
(* registration, in both cases leaving the attendance table as it was; it  *)
(* succeeds exactly when the registration is approved or paid. A call in   *)
(* flight whose checks still hold ends as the call served alone.           *)
C12_AttendanceNeedsApprovedOrPaid ==
    /\ \A id \in RegistrationIds, a \in BOOLEAN :
           /\ ~RegistrationExists(id)
                 => updateAttendance(id, a).err = RegistrationNotFound
           /\ (RegistrationExists(id)
               /\ StatusOf(id) \in {"pending", "rejected", "cancelled"})
                 => updateAttendance(id, a).err = NotApprovedOrPaid
           /\ updateAttendance(id, a).err # NoError
                 => updateAttendance(id, a).db = db
           /\ updateAttendance(id, a).err = NoError
                 <=> (RegistrationExists(id) /\ StatusOf(id) \in {"approved", "paid"})
    /\ updateAttendanceAgrees

(* A registration that was marked attended and then cancelled is refused   *)
(* and its attendance row stays; a pending one is refused as well, and a   *)
(* call was refused for the status of its registration.                    *)
C12_Witness ==
    /\ \E r \in registrations :
          /\ r.status = "cancelled"
          /\ AttendanceOf(r.id) # {}
          /\ updateAttendance(r.id, FALSE).err = NotApprovedOrPaid
          /\ updateAttendance(r.id, FALSE).db.attendance = attendance
    /\ \E r \in registrations :
          /\ r.status = "pending"
          /\ updateAttendance(r.id, TRUE).err = NotApprovedOrPaid
    /\ \E p \in Procs :
          /\ calls[p].op = "updateAttendance" /\ calls[p].pc = "done"
          /\ calls[p].err = NotApprovedOrPaid

(* The attendance rows `rows` hold at most one row per registration.       *)
OneAttendancePerRegistration(rows) ==
    \A a1 \in rows, a2 \in rows : a1.registration_id = a2.registration_id => a1 = a2

(* C13: completed operations keep at most one attendance row per           *)
(* registration: from a database with at most one row per registration, a  *)
(* successful updateAttendance inserts a row when the registration has     *)
(* none and otherwise updates the row that is there, adding none, and      *)
(* deleteSeminar adds none, so the database it leaves has at most one row  *)
(* per registration again. A call in flight whose checks still hold ends   *)
(* as the call served alone.                                               *)
C13_OneAttendancePerRegistration ==
    /\ OneAttendancePerRegistration(attendance)
          => /\ \A id \in RegistrationIds, a \in BOOLEAN :
                   /\ OneAttendancePerRegistration(updateAttendance(id, a).db.attendance)
                   /\ updateAttendance(id, a).err = NoError
                      => /\ Cardinality({x \in updateAttendance(id, a).db.attendance :
                                           x.registration_id = id}) = 1
                         /\ AttendanceOf(id) # {}
                               => /\ Cardinality(updateAttendance(id, a).db.attendance)
                                        = Cardinality(attendance)
                                  /\ \A x \in AttendanceOf(id) :
                                        \E y \in updateAttendance(id, a).db.attendance :
                                            y.id = x.id /\ y.created_at = x.created_at
                         /\ AttendanceOf(id) = {}
                               => Cardinality(updateAttendance(id, a).db.attendance)
                                     = Cardinality(attendance) + 1
             /\ \A sid \in SeminarIds :
                   OneAttendancePerRegistration(deleteSeminar(sid).db.attendance)
             /\ \A id \in RegistrationIds, st \in registrationStatusEnum :
                   /\ updateRegistrationStatus(id, st).db.attendance = attendance
                   /\ cancelRegistration(id, st).db.attendance = attendance
                   /\ generateCertificate(id).db.attendance = attendance
    /\ updateAttendanceAgrees

(* An attendance row that was updated by a call after it was inserted,     *)
(* next to the attendance row of another registration, each registration   *)
(* with one row.                                                           *)
C13_Witness ==
    /\ OneAttendancePerRegistration(attendance)
    /\ Cardinality(attendance) = 2
    /\ \E p \in Procs, a \in attendance :
          /\ calls[p].op = "updateAttendance" /\ calls[p].pc = "done"
          /\ calls[p].rows = {a}
          /\ a.attendance_date > a.created_at
          /\ updateAttendance(a.registration_id, TRUE).err = NoError

(* C14: the last write wins: in every state, also right after an           *)
(* updateAttendance of the same registration, updateAttendance(id, b) on   *)
(* an approved or paid registration leaves exactly one attendance row for  *)
(* id, and its attended value is b.                                        *)
C14_LastWriteWins ==
    \A id \in RegistrationIds, b \in BOOLEAN :
        (RegistrationExists(id) /\ StatusOf(id) \in {"approved", "paid"})
        => /\ \A x \in updateAttendance(id, b).db.attendance :
                 x.registration_id = id => x.attended = b
           /\ Cardinality({x \in updateAttendance(id, b).db.attendance :
                             x.registration_id = id}) = 1
           /\ \A x \in updateAttendance(id, b).rows :
                 x.registration_id = id /\ x.attended = b

(* C15: generateCertificate throws 'Registration not found' on an          *)
(* unresolved id, the invalid-status error on a pending, rejected or       *)
(* cancelled registration, and the did-not-attend error when no attendance *)
(* row with attended = true exists; a failing call inserts no certificate, *)
(* and a call that inserts a certificate, served alone or in flight,       *)
(* inserts it while the registration is approved or paid and marked        *)
(* attended.                                                               *)
C15_CertificateNeedsAttendance ==
    /\ \A id \in RegistrationIds :
           /\ ~RegistrationExists(id)
                 => generateCertificate(id).err = RegistrationNotFound
           /\ (RegistrationExists(id)
               /\ StatusOf(id) \in {"pending", "rejected", "cancelled"})
                 => generateCertificate(id).err = InvalidStatus
           /\ (RegistrationExists(id) /\ StatusOf(id) \in {"approved", "paid"}
               /\ ~MarkedAttended(id))
                 => generateCertificate(id).err = DidNotAttend
           /\ generateCertificate(id).err # NoError
                 => generateCertificate(id).db = db
           /\ generateCertificate(id).db.certificates # certificates
                 => /\ RegistrationExists(id)
                    /\ StatusOf(id) \in {"approved", "paid"}
                    /\ MarkedAttended(id)
    /\ \A p \in Procs :
          (InFlight(p, "generateCertificate") /\ calls[p].pc = "insert"
           /\ generateCertificateStep(calls[p]).db.certificates # certificates)
          => /\ StatusOf(calls[p].registration_id) \in {"approved", "paid"}
             /\ MarkedAttended(calls[p].registration_id)

(* C16: issuance is idempotent: for an eligible registration the call      *)
(* returns one certificate and leaves exactly one certificate row for the  *)
(* registration; when the row is already there, as right after a first     *)
(* call, the call returns that row, same id and same path, and writes      *)
(* nothing.                                                                *)
C16_IssuanceIdempotent ==
    \A id \in RegistrationIds :
        (RegistrationExists(id) /\ StatusOf(id) \in {"approved", "paid"}
         /\ MarkedAttended(id))
        => /\ generateCertificate(id).err = NoError
           /\ Cardinality(generateCertificate(id).rows) = 1
           /\ generateCertificate(id).rows
                 = {c \in generateCertificate(id).db.certificates :
                       c.registration_id = id}
           /\ CertificatesOf(id) # {}
                 => /\ generateCertificate(id).rows = CertificatesOf(id)
                    /\ generateCertificate(id).db = db

(* The certificate rows `rows` hold at most one row per registration.      *)
OneCertificatePerRegistration(rows) ==
    \A c1 \in rows, c2 \in rows : c1.registration_id = c2.registration_id => c1 = c2

(* C17: completed operations keep at most one certificate row per          *)
(* registration: from a database with at most one certificate per          *)
(* registration, generateCertificate inserts a certificate only for a      *)
(* registration that has none, deleteSeminar adds none, and the other      *)
(* operations leave the certificates as they are, so the database each of  *)
(* them leaves has at most one certificate per registration again. A call  *)
(* in flight whose checks still hold ends as the call served alone.        *)
C17_OneCertificatePerRegistration ==
    /\ OneCertificatePerRegistration(certificates)
          => /\ \A id \in RegistrationIds :
                   /\ OneCertificatePerRegistration(
                         generateCertificate(id).db.certificates)
                   /\ CertificatesOf(id) # {}
                         => generateCertificate(id).db.certificates = certificates
             /\ \A sid \in SeminarIds :
                   OneCertificatePerRegistration(deleteSeminar(sid).db.certificates)
             /\ \A id \in RegistrationIds, st \in registrationStatusEnum,
                   a \in BOOLEAN :
                   /\ updateRegistrationStatus(id, st).db.certificates = certificates
                   /\ cancelRegistration(id, st).db.certificates = certificates
                   /\ updateAttendance(id, a).db.certificates = certificates
    /\ generateCertificateAgrees

(* Two registrations each hold their one certificate, issued by calls of   *)
(* which one has just returned, and both are still eligible, so that a     *)
(* repeat request passes every check.                                      *)
C17_Witness ==
    /\ Cardinality(certificates) = 2
    /\ OneCertificatePerRegistration(certificates)
    /\ \A c \in certificates :
          /\ StatusOf(c.registration_id) \in {"approved", "paid"}
          /\ MarkedAttended(c.registration_id)
          /\ generateCertificate(c.registration_id).err = NoError
          /\ generateCertificate(c.registration_id).db.certificates = certificates
    /\ \E p \in Procs :
          /\ calls[p].op = "generateCertificate" /\ calls[p].pc = "done"
          /\ calls[p].rows # {} /\ calls[p].rows \subseteq certificates

(* C18: whenever a certificate row exists for a registration,              *)
(* generateCertificate for that registration does not throw and returns    *)
(* that row unchanged, whatever happened since it was issued.              *)
C18_RepeatIssuanceNeverFails ==
    \A c \in certificates :
        /\ generateCertificate(c.registration_id).err = NoError
        /\ generateCertificate(c.registration_id).rows = {c}
(* C18 amended: whenever the certificate row of a registration is stored,  *)
(* a repeat request writes nothing; as long as the registration is still   *)
(* approved or paid and marked attended it does not throw and returns that *)
(* row unchanged; once the registration was made pending, rejected or      *)
(* cancelled the request throws the invalid-status error, once its         *)
(* attendance was set to false it throws the did-not-attend error, and in  *)
(* both cases the certificate rows stay as they are. A call in flight      *)
(* whose checks still hold ends as the call served alone.                  *)
C18_RepeatIssuanceWhileEligible ==
    /\ \A c \in certificates :
          /\ RegistrationExists(c.registration_id)
          /\ generateCertificate(c.registration_id).db = db
          /\ (StatusOf(c.registration_id) \in {"approved", "paid"}
              /\ MarkedAttended(c.registration_id))
                => /\ generateCertificate(c.registration_id).err = NoError
                   /\ generateCertificate(c.registration_id).rows = {c}
          /\ StatusOf(c.registration_id) \in {"pending", "rejected", "cancelled"}
                => /\ generateCertificate(c.registration_id).err = InvalidStatus
                   /\ generateCertificate(c.registration_id).rows = NoRows
          /\ (StatusOf(c.registration_id) \in {"approved", "paid"}
              /\ ~MarkedAttended(c.registration_id))
                => /\ generateCertificate(c.registration_id).err = DidNotAttend
                   /\ generateCertificate(c.registration_id).rows = NoRows
    /\ \A p \in Procs :
          (calls[p].op = "generateCertificate" /\ calls[p].pc = "done"
           /\ calls[p].err = NoError)
          => calls[p].rows = CertificatesOf(calls[p].registration_id)
    /\ generateCertificateAgrees

(* Two certificates: the registration of one was cancelled since and a     *)
(* repeat request for it was refused, the other is still eligible and a    *)
(* repeat request got its certificate back after the clock advanced.       *)
C18_Witness ==
    /\ \E c \in certificates :
          /\ StatusOf(c.registration_id) = "cancelled"
          /\ generateCertificate(c.registration_id).err = InvalidStatus
    /\ \E c \in certificates, p \in Procs :
          /\ StatusOf(c.registration_id) \in {"approved", "paid"}
          /\ MarkedAttended(c.registration_id)
          /\ generateCertificate(c.registration_id).rows = {c}
          /\ calls[p].op = "generateCertificate" /\ calls[p].pc = "done"
          /\ calls[p].rows = {c}
          /\ c.issue_date < now
    /\ \E p \in Procs :
          /\ calls[p].op = "generateCertificate" /\ calls[p].pc = "done"
          /\ calls[p].err = InvalidStatus
          /\ CertificatesOf(calls[p].registration_id) # {}
(* C19: after deleteSeminar returned true for a seminar, the seminar row,  *)
(* every registration of the seminar and every attendance and certificate  *)
(* row of those registrations are gone, and the users are as they were.    *)
(* This holds of the call served alone and of the statement with which a   *)
(* call in flight returns true.                                            *)
C19_DeleteCascades ==
    /\ \A sid \in SeminarIds :
           /\ deleteSeminar(sid).flag = TRUE <=> SeminarExists(sid)
           /\ deleteSeminar(sid).flag = TRUE
                 => /\ deleteSeminar(sid).err = NoError
                    /\ \A s \in deleteSeminar(sid).db.seminars : s.id # sid
                    /\ \A r \in deleteSeminar(sid).db.registrations :
                          r.seminar_id # sid
                    /\ \A r \in registrations : r.seminar_id = sid
                          => /\ \A a \in deleteSeminar(sid).db.attendance :
                                   a.registration_id # r.id
                             /\ \A c \in deleteSeminar(sid).db.certificates :
                                   c.registration_id # r.id
                    /\ deleteSeminar(sid).db.users = users
    /\ \A p \in Procs :
          (InFlight(p, "deleteSeminar") /\ calls[p].pc = "deleteSeminar"
           /\ deleteSeminarStep(calls[p], 0).call.flag)
          => /\ \A s \in deleteSeminarStep(calls[p], 0).db.seminars :
                   s.id # calls[p].seminar_id
             /\ \A r \in deleteSeminarStep(calls[p], 0).db.registrations :
                   r.seminar_id # calls[p].seminar_id /\ r.id \notin calls[p].ids
             /\ \A a \in deleteSeminarStep(calls[p], 0).db.attendance :
                   a.registration_id \notin calls[p].ids
             /\ \A c \in deleteSeminarStep(calls[p], 0).db.certificates :
                   c.registration_id \notin calls[p].ids
             /\ deleteSeminarStep(calls[p], 0).db.users = users

(* A deleteSeminar call has returned true for the seminar whose two        *)
(* registrations both had an attendance row and a certificate: the seminar *)
(* and all those rows are gone, the other seminar and the three users are  *)
(* still there.                                                            *)
C19_Witness ==
    \E p \in Procs :
        /\ calls[p].op = "deleteSeminar" /\ calls[p].pc = "done" /\ calls[p].flag
        /\ Cardinality(calls[p].ids) = 2
        /\ ~SeminarExists(calls[p].seminar_id)
        /\ \E s \in seminars : s.id # calls[p].seminar_id
        /\ registrations = {} /\ attendance = {} /\ certificates = {}
        /\ nextAttendanceId = 3 /\ nextCertificateId = 3
        /\ Cardinality(users) = 3

(* C20: deleteSeminar on an id that resolves to no seminar returns false,  *)
(* throws nothing and leaves every table as it was. This holds of the call *)
(* served alone and of the first statement of a call in flight.            *)
C20_DeleteMissingSeminar ==
    /\ \A sid \in SeminarIds :
           ~SeminarExists(sid)
           => /\ deleteSeminar(sid).err = NoError
              /\ deleteSeminar(sid).flag = FALSE
              /\ deleteSeminar(sid).db = db
    /\ \A p \in Procs :
          (InFlight(p, "deleteSeminar") /\ calls[p].pc = "seminar"
           /\ ~SeminarExists(calls[p].seminar_id))
          => /\ deleteSeminarStep(calls[p], 0).call.pc = "done"
             /\ deleteSeminarStep(calls[p], 0).call.err = NoError
             /\ deleteSeminarStep(calls[p], 0).call.flag = FALSE
             /\ deleteSeminarStep(calls[p], 0).db = db

(* One seminar was deleted, the other still has a registration with its    *)
(* attendance: deleting the first again returns false, and a call has      *)
(* returned false for it.                                                  *)
C20_Witness ==
    /\ \E sid \in SeminarIds :
           /\ ~SeminarExists(sid)
           /\ registrations # {}
           /\ attendance # {}
           /\ deleteSeminar(sid).flag = FALSE
           /\ deleteSeminar(sid).db.registrations = registrations
    /\ \E p \in Procs :
          /\ calls[p].op = "deleteSeminar" /\ calls[p].pc = "done"
          /\ calls[p].err = NoError /\ ~calls[p].flag
          /\ ~SeminarExists(calls[p].seminar_id)
(* C22: no orphans: after any sequence of completed calls every attendance *)
(* row and every certificate row references an existing registration and   *)
(* every registration references an existing seminar.                      *)
C22_NoOrphans ==
    /\ \A a \in attendance : RegistrationExists(a.registration_id)
    /\ \A c \in certificates : RegistrationExists(c.registration_id)
    /\ \A r \in registrations : SeminarExists(r.seminar_id)

(* The seminar whose registration had its attendance and certificate was   *)
(* deleted by a call that returned true, after a second seminar was        *)
(* created; no row of the deleted seminar is left.                         *)
C22_Witness ==
    \E p \in Procs :
        /\ calls[p].op = "deleteSeminar" /\ calls[p].pc = "done" /\ calls[p].flag
        /\ calls[p].ids # {}
        /\ ~SeminarExists(calls[p].seminar_id)
        /\ seminars # {}
        /\ nextRegistrationId = 2
        /\ nextAttendanceId = 2
        /\ nextCertificateId = 2
        /\ registrations = {} /\ attendance = {} /\ certificates = {}

(* What the claims on seminars say about the users.                        *)
IsSpeaker(id) == \E u \in users : u.id = id /\ u.role = "speaker"

(* C30: createSeminar, and updateSeminar given a speaker_id, change no     *)
(* seminar row unless the speaker_id resolves to a user with the role      *)
(* speaker: createSeminar throws, updateSeminar throws on an existing      *)
(* seminar and returns null on an unresolved one; whenever one of them,    *)
(* served alone or in flight, writes a speaker_id, that user is a speaker  *)
(* at the time of the write.                                               *)
C30_SpeakerChecked ==
    /\ \A uid \in UserIds :
           /\ \A c \in Capacities, k \in Nullable(Costs),
                 ty \in registrationTypeEnum :
                 /\ ~IsSpeaker(uid)
                       => /\ createSeminar(uid, c, k, ty).err # NoError
                          /\ createSeminar(uid, c, k, ty).db = db
                 /\ createSeminar(uid, c, k, ty).db.seminars # seminars
                       => /\ IsSpeaker(uid)
                          /\ \A s \in createSeminar(uid, c, k, ty).db.seminars \ seminars :
                                s.speaker_id = uid
           /\ \A sid \in SeminarIds, c \in Optional(Capacities),
                 k \in Optional(Nullable(Costs)),
                 ty \in Optional(registrationTypeEnum), payload \in BOOLEAN :
                 /\ ~IsSpeaker(uid)
                       => /\ updateSeminar(sid, {uid}, c, k, ty, payload).db = db
                          /\ updateSeminar(sid, {uid}, c, k, ty, payload).rows = NoRows
                          /\ SeminarExists(sid)
                                => updateSeminar(sid, {uid}, c, k, ty, payload).err # NoError
                 /\ updateSeminar(sid, {uid}, c, k, ty, payload).db.seminars # seminars
                       => /\ IsSpeaker(uid)
                          /\ \A s \in updateSeminar(sid, {uid}, c, k, ty, payload).db.seminars
                                         \ seminars : s.speaker_id = uid
    /\ \A p \in Procs :
          /\ (InFlight(p, "createSeminar") /\ calls[p].pc = "insert"
              /\ createSeminarStep(calls[p]).db.seminars # seminars)
             => IsSpeaker(TheRow(calls[p].speaker_id))
          /\ (InFlight(p, "updateSeminar") /\ calls[p].pc = "update"
              /\ calls[p].speaker_id # {}
              /\ updateSeminarStep(calls[p]).call.rows # NoRows)
             => IsSpeaker(TheRow(calls[p].speaker_id))

(* What the claims on calls in flight say about a call.                    *)
Running(p, op) == calls[p].op = op /\ calls[p].pc # "idle"
NoOrphanRows ==
    /\ \A a \in attendance : \E r \in registrations : r.id = a.registration_id
    /\ \A c \in certificates : \E r \in registrations : r.id = c.registration_id
    /\ \A r \in registrations : \E s \in seminars : s.id = r.seminar_id

(* The statement a deleteSeminar call in flight executes next, for each id *)
(* its loop may be at.                                                     *)
NextStatements(p) ==
    {deleteSeminarStep(calls[p], regId) :
        regId \in (IF calls[p].todo = {} THEN {0} ELSE calls[p].todo)}

(* C21: a deleteSeminar run deletes in the order certificates, attendance, *)
(* registrations, seminar. Each statement of the run touches one table:    *)
(* the two lookups none, then the certificates and after them the          *)
(* attendance of the registrations that were read, one registration id     *)
(* per statement, then the registrations of the seminar, which the store   *)
(* lets go only when no attendance or certificate row references them,     *)
(* then the seminar, which the store lets go only when no registration     *)
(* references it; the run moves from one table to the next in that order   *)
(* and never back. No state, in a run or after it, has an orphan row.      *)
C21_ChildrenBeforeParents ==
    /\ NoOrphanRows
    /\ \A p \in Procs : InFlight(p, "deleteSeminar") =>
          \A s \in NextStatements(p) :
             /\ calls[p].pc = "seminar"
                   => s.db = db /\ s.call.pc \in {"registrations", "done"}
             /\ calls[p].pc = "registrations"
                   => /\ s.db = db
                      /\ s.call.pc \in {"certificates", "deleteSeminar"}
                      /\ s.call.ids = {r.id : r \in registrationsBySeminar(
                                                       calls[p].seminar_id)}
             /\ calls[p].pc = "certificates"
                   => /\ s.call.pc \in {"certificates", "attendance"}
                      /\ s.db.certificates \subseteq certificates
                      /\ \A c \in certificates \ s.db.certificates :
                            c.registration_id \in calls[p].ids
                      /\ [s.db EXCEPT !.certificates = certificates] = db
             /\ calls[p].pc = "attendance"
                   => /\ s.call.pc \in {"attendance", "deleteRegistrations"}
                      /\ s.db.attendance \subseteq attendance
                      /\ \A a \in attendance \ s.db.attendance :
                            a.registration_id \in calls[p].ids
                      /\ [s.db EXCEPT !.attendance = attendance] = db
             /\ calls[p].pc = "deleteRegistrations"
                   => /\ s.call.pc \in {"deleteSeminar", "done"}
                      /\ s.call.pc = "done"
                            => s.call.err = ForeignKeyViolation /\ s.db = db
                      /\ s.db.registrations \subseteq registrations
                      /\ \A r \in registrations \ s.db.registrations :
                            /\ r.seminar_id = calls[p].seminar_id
                            /\ AttendanceOf(r.id) = {}
                            /\ CertificatesOf(r.id) = {}
                      /\ [s.db EXCEPT !.registrations = registrations] = db
             /\ calls[p].pc = "deleteSeminar"
                   => /\ s.call.pc = "done"
                      /\ s.call.err # NoError
                            => s.call.err = ForeignKeyViolation /\ s.db = db
                      /\ s.call.err = NoError
                            => /\ s.call.flag
                               /\ \A r \in registrations :
                                     r.seminar_id # calls[p].seminar_id
                               /\ \A x \in s.db.seminars :
                                     x.id # calls[p].seminar_id
                      /\ [s.db EXCEPT !.seminars = seminars] = db

(* A run on the seminar whose two registrations had attendance and         *)
(* certificate has deleted the two certificates and the two attendance     *)
(* rows and is about to delete the two registrations, which are still      *)
(* there.                                                                  *)
C21_Witness ==
    \E p \in Procs :
        /\ InFlight(p, "deleteSeminar")
        /\ calls[p].pc = "deleteRegistrations"
        /\ Cardinality(calls[p].ids) = 2
        /\ nextCertificateId = 3
        /\ nextAttendanceId = 3
        /\ certificates = {}
        /\ attendance = {}
        /\ Cardinality(registrations) = 2

(* C28: a deleteSeminar that fails on a store fault leaves the store as it *)
(* was before the call: the registrations the call had read are still      *)
(* stored.                                                                 *)
C28_DeleteAllOrNothing ==
    \A p \in Procs :
        (calls[p].op = "deleteSeminar" /\ calls[p].pc = "done"
         /\ calls[p].err = StoreFailure)
        => \A id \in calls[p].ids : RegistrationExists(id)
(* Two calls of the same operation that both returned without an error.    *)
BothReturned(p, q, op) ==
    /\ p # q
    /\ calls[p].op = op /\ calls[p].pc = "done" /\ calls[p].err = NoError
    /\ calls[q].op = op /\ calls[q].pc = "done" /\ calls[q].err = NoError

(* C23: two interleaved createRegistration calls by different participants *)
(* for the same seminar do not both insert past the capacity: when both    *)
(* have returned a registration, the approved + paid count of the seminar  *)
(* is within its capacity.                                                 *)
C23_RaceKeepsCapacity ==
    \A p \in Procs, q \in Procs :
        (BothReturned(p, q, "createRegistration")
         /\ calls[p].seminar_id = calls[q].seminar_id
         /\ calls[p].participant_id # calls[q].participant_id
         /\ SeminarExists(calls[p].seminar_id))
        => Cardinality(ApprovedOrPaid(calls[p].seminar_id))
              <= CapacityOf(calls[p].seminar_id)

(* C24: two interleaved createRegistration calls for the same seminar and  *)
(* participant do not both insert: at most one registration exists for     *)
(* the pair.                                                               *)
C24_RaceKeepsPairUnique ==
    \A r1 \in registrations, r2 \in registrations :
        (r1.seminar_id = r2.seminar_id /\ r1.participant_id = r2.participant_id)
        => r1.id = r2.id

(* C25: two interleaved updateAttendance calls for the same registration   *)
(* leave exactly one attendance row for it.                                *)
C25_RaceKeepsOneAttendance ==
    \A p \in Procs, q \in Procs :
        (BothReturned(p, q, "updateAttendance")
         /\ calls[p].registration_id = calls[q].registration_id)
        => Cardinality(AttendanceOf(calls[p].registration_id)) = 1

(* C26: two interleaved generateCertificate calls for the same eligible    *)
(* registration leave exactly one certificate row for it, and both return  *)
(* that certificate.                                                       *)
C26_RaceKeepsOneCertificate ==
    \A p \in Procs, q \in Procs :
        (BothReturned(p, q, "generateCertificate")
         /\ calls[p].registration_id = calls[q].registration_id)
        => /\ Cardinality(CertificatesOf(calls[p].registration_id)) = 1
           /\ calls[p].rows = calls[q].rows

(* C27: with deleteSeminar interleaved with createRegistration,            *)
(* updateAttendance and generateCertificate, no state has an orphan row,   *)
(* and once a deleteSeminar has returned true no registration references   *)
(* its seminar.                                                            *)
C27_NoOrphansWhenInterleaved ==
    /\ \A r \in registrations : SeminarExists(r.seminar_id)
    /\ \A a \in attendance : RegistrationExists(a.registration_id)
    /\ \A c \in certificates : RegistrationExists(c.registration_id)
    /\ \A p \in Procs :
          (calls[p].op = "deleteSeminar" /\ calls[p].pc = "done" /\ calls[p].flag)
          => /\ ~SeminarExists(calls[p].seminar_id)
             /\ \A r \in registrations : r.seminar_id # calls[p].seminar_id
             /\ \A id \in calls[p].ids :
                   AttendanceOf(id) = {} /\ CertificatesOf(id) = {}

(* A deleteSeminar returned true while a createRegistration for the same   *)
(* seminar, which had passed its checks, was refused by the store at the   *)
(* insert.                                                                 *)
C27_Witness ==
    \E p \in Procs, q \in Procs :
        /\ calls[p].op = "deleteSeminar" /\ calls[p].pc = "done" /\ calls[p].flag
        /\ calls[p].ids # {}
        /\ calls[q].op = "createRegistration" /\ calls[q].pc = "done"
        /\ calls[q].seminar_id = calls[p].seminar_id
        /\ calls[q].err = ForeignKeyViolation

(* C29: no two certificate rows carry the same certificate_url.            *)
C29_UrlsNeverCollide ==
    \A c1 \in certificates, c2 \in certificates :
        c1.certificate_url = c2.certificate_url => c1.id = c2.id

(* What the scenario claims say about a seminar and its registrations.     *)
RegistrationsOf(sid) == {r \in registrations : r.seminar_id = sid}
IsSeminar(sid, type, capacity) ==
    \E s \in seminars :
        s.id = sid /\ s.registration_type = type /\ s.capacity = capacity

(* C31: on a seminar that requires approval and has one seat, the first    *)
(* registration is stored as pending; approving it stores approved; and    *)
(* once the seminar's one registration is approved, createRegistration by  *)
(* another participant throws the capacity error and inserts no row. A     *)
(* call in flight whose checks still hold ends as the call served alone.   *)
C31_ApprovedSeatFillsSeminar ==
    /\ \A sid \in SeminarIds :
           IsSeminar(sid, "approval_required", 1)
           => /\ \A a \in UserIds, st \in registrationStatusEnum :
                    (IsParticipant(a) /\ RegistrationsOf(sid) = {})
                    => /\ createRegistration(sid, a, st).err = NoError
                       /\ \E row \in createRegistration(sid, a, st).rows :
                             /\ row.status = "pending"
                             /\ row.participant_id = a
                             /\ createRegistration(sid, a, st).db.registrations
                                   = registrations \cup {row}
              /\ \A r \in RegistrationsOf(sid) :
                    r.status = "pending"
                    => /\ updateRegistrationStatus(r.id, "approved").err = NoError
                       /\ \E row \in updateRegistrationStatus(r.id, "approved")
                                        .db.registrations :
                             row.id = r.id /\ row.status = "approved"
              /\ \A r \in RegistrationsOf(sid), b \in UserIds,
                    st \in registrationStatusEnum :
                    (RegistrationsOf(sid) = {r} /\ r.status = "approved"
                     /\ IsParticipant(b) /\ b # r.participant_id)
                    => /\ createRegistration(sid, b, st).err = AtCapacity
                       /\ createRegistration(sid, b, st).db = db
    /\ createRegistrationAgrees

(* The end of the scenario: the seminar with one seat holds exactly the    *)
(* registration of A, approved, and B was turned away by the capacity      *)
(* check.                                                                  *)
C31_Witness ==
    \E sid \in SeminarIds, r \in registrations, b \in UserIds, p \in Procs :
        /\ IsSeminar(sid, "approval_required", 1)
        /\ RegistrationsOf(sid) = {r}
        /\ r.status = "approved"
        /\ IsParticipant(b) /\ b # r.participant_id
        /\ createRegistration(sid, b, "pending").err = AtCapacity
        /\ createRegistration(sid, b, "pending").db.registrations = registrations
        /\ calls[p].op = "createRegistration" /\ calls[p].pc = "done"
        /\ calls[p].seminar_id = sid /\ calls[p].participant_id = b
        /\ calls[p].err = AtCapacity

(* C32: on a free seminar with two seats a participant's registration is   *)
(* stored approved; updateAttendance(true) on it then inserts an           *)
(* attendance row with attended = true; generateCertificate then inserts a *)
(* certificate whose URL names the registration; and a further             *)
(* generateCertificate returns that same row and writes nothing. Each step *)
(* needs only what the step before it left, and the calls in flight whose  *)
(* checks still hold end as the calls served alone.                        *)
C32_RegisterAttendCertify ==
    /\ \A sid \in SeminarIds :
           IsSeminar(sid, "free", 2)
           => /\ \A p \in UserIds, st \in registrationStatusEnum :
                    (IsParticipant(p) /\ RegistrationsOf(sid) = {})
                    => /\ createRegistration(sid, p, st).err = NoError
                       /\ \E row \in createRegistration(sid, p, st).rows :
                             /\ row.status = "approved"
                             /\ row.participant_id = p
                             /\ createRegistration(sid, p, st).db.registrations
                                   = registrations \cup {row}
              /\ \A r \in RegistrationsOf(sid) :
                    /\ (r.status = "approved" /\ AttendanceOf(r.id) = {})
                       => /\ updateAttendance(r.id, TRUE).err = NoError
                          /\ \E row \in updateAttendance(r.id, TRUE).rows :
                                /\ row.attended
                                /\ row.registration_id = r.id
                                /\ updateAttendance(r.id, TRUE).db.attendance
                                      = attendance \cup {row}
                    /\ (r.status = "approved" /\ MarkedAttended(r.id)
                        /\ CertificatesOf(r.id) = {})
                       => /\ generateCertificate(r.id).err = NoError
                          /\ \E row \in generateCertificate(r.id).rows :
                                /\ row \notin certificates
                                /\ row.registration_id = r.id
                                /\ row.certificate_url.registration_id = r.id
                                /\ generateCertificate(r.id).db.certificates
                                      = certificates \cup {row}
                    /\ (r.status = "approved" /\ MarkedAttended(r.id))
                       => \A c \in CertificatesOf(r.id) :
                             CertificatesOf(r.id) = {c}
                             => /\ generateCertificate(r.id).err = NoError
                                /\ generateCertificate(r.id).rows = {c}
                                /\ generateCertificate(r.id).db = db
    /\ createRegistrationAgrees
    /\ updateAttendanceAgrees
    /\ generateCertificateAgrees

(* The end of the scenario: the approved registration on the free seminar  *)
(* has its attendance and its certificate, and the repeat request has      *)
(* returned the certificate that is stored.                                *)
C32_Witness ==
    \E sid \in SeminarIds, r \in registrations, c \in certificates, p \in Procs :
        /\ IsSeminar(sid, "free", 2)
        /\ RegistrationsOf(sid) = {r}
        /\ r.status = "approved"
        /\ MarkedAttended(r.id)
        /\ CertificatesOf(r.id) = {c}
        /\ generateCertificate(r.id).rows = {c}
        /\ generateCertificate(r.id).db.certificates = certificates
        /\ calls[p].op = "generateCertificate" /\ calls[p].pc = "done"
        /\ calls[p].rows = {c}
        /\ c.issue_date < now

(* What the claim on the listings says a listed row carries: the title,    *)
(* date, location and cost of the registration's seminar and the name and  *)
(* email of its participant.                                               *)
Denormalized(row) ==
    /\ {"seminar_title", "seminar_date", "seminar_location", "seminar_cost",
        "participant_name", "participant_email"} \subseteq DOMAIN row
    /\ row.seminar_title = Column("seminars", row.seminar_id, "title")
    /\ row.seminar_date = Column("seminars", row.seminar_id, "date")
    /\ row.seminar_location = Column("seminars", row.seminar_id, "location")
    /\ \E s \in seminars :
          /\ s.id = row.seminar_id
          /\ row.seminar_cost = {parseFloat(text) : text \in s.cost}
    /\ row.participant_name = Column("users", row.participant_id, "name")
    /\ \E u \in users : u.id = row.participant_id /\ row.participant_email = u.email

(* C33: every row that getRegistrations, getRegistrationsByUser or         *)
(* getRegistrationsBySeminar returned carries the denormalized fields of   *)
(* the registration's seminar and participant.                             *)
C33_ListingsDenormalized ==
    \A p \in Procs :
        (calls[p].pc = "done"
         /\ calls[p].op \in {"getRegistrations", "getRegistrationsByUser",
                             "getRegistrationsBySeminar"})
        => \A row \in calls[p].rows : Denormalized(row)

(* Every registration of now is still a row of the registrations `after`.  *)
RegistrationsKept(after) ==
    \A r \in registrations : \E k \in after.registrations : k.id = r.id

(* The databases the next statement of the call in slot p may leave.       *)
NextDatabases(p) ==
    CASE calls[p].op = "createRegistration" ->
            {createRegistrationStep(calls[p]).db}
      [] calls[p].op = "updateAttendance" -> {updateAttendanceStep(calls[p]).db}
      [] calls[p].op = "generateCertificate" ->
            {generateCertificateStep(calls[p]).db}
      [] calls[p].op = "createSeminar" -> {createSeminarStep(calls[p]).db}
      [] calls[p].op = "updateSeminar" -> {updateSeminarStep(calls[p]).db}
      [] calls[p].op = "updateUser" -> {updateUserStep(calls[p]).db}
      [] calls[p].op = "deleteSeminar" -> {s.db : s \in NextStatements(p)}
      [] calls[p].op = "updateRegistrationStatus" ->
            {updateRegistrationStatus(calls[p].registration_id,
                                      calls[p].status).db}
      [] calls[p].op = "cancelRegistration" ->
            {cancelRegistration(calls[p].registration_id, calls[p].status).db}
      [] calls[p].op = "createUser" ->
            {createUser(TheRow(calls[p].email), TheRow(calls[p].role)).db}
      [] calls[p].op = "deleteUser" -> {deleteUser(calls[p].user_id).db}
      [] OTHER -> {db}

(* C34: a registration row is removed only by deleteSeminar of its own     *)
(* seminar. createRegistration, updateRegistrationStatus,                  *)
(* cancelRegistration (the row stays, cancelled), updateAttendance,        *)
(* generateCertificate and updateSeminar keep every registration row, and  *)
(* deleteSeminar keeps the rows of every other seminar as they are. This   *)
(* holds of the calls served alone and of every statement of a call in     *)
(* flight.                                                                 *)
C34_RemovedOnlyWithSeminar ==
    /\ \A sid \in SeminarIds, uid \in UserIds, st \in registrationStatusEnum :
          RegistrationsKept(createRegistration(sid, uid, st).db)
    /\ \A rid \in RegistrationIds, st \in registrationStatusEnum :
          /\ RegistrationsKept(updateRegistrationStatus(rid, st).db)
          /\ RegistrationsKept(cancelRegistration(rid, st).db)
          /\ RegistrationExists(rid)
                => \E k \in cancelRegistration(rid, st).db.registrations :
                      k.id = rid /\ k.status = "cancelled"
    /\ \A rid \in RegistrationIds :
          /\ \A flag \in BOOLEAN :
                updateAttendance(rid, flag).db.registrations = registrations
          /\ generateCertificate(rid).db.registrations = registrations
    /\ \A sid \in SeminarIds, uid \in Optional(UserIds),
          c \in Optional(Capacities), ty \in Optional(registrationTypeEnum),
          k \in Optional(Nullable(Costs)), payload \in BOOLEAN :
          updateSeminar(sid, uid, c, k, ty, payload).db.registrations = registrations
    /\ \A sid \in SeminarIds :
          \A r \in registrations :
             r.seminar_id # sid => r \in deleteSeminar(sid).db.registrations
    /\ \A p \in Procs :
          calls[p].pc \notin {"idle", "done"}
          => \A d \in NextDatabases(p) :
                \A r \in registrations :
                   \/ \E k \in d.registrations : k.id = r.id
                   \/ /\ calls[p].op = "deleteSeminar"
                      /\ r.seminar_id = calls[p].seminar_id

(* Both seminars have a registration, one of them cancelled by a call and  *)
(* still stored; deleting one seminar removes its registration and keeps   *)
(* the other.                                                              *)
C34_Witness ==
    /\ \E sid \in SeminarIds, r \in registrations, k \in registrations :
           /\ r.seminar_id = sid
           /\ k.seminar_id # sid
           /\ r.status = "cancelled" \/ k.status = "cancelled"
           /\ deleteSeminar(sid).db.registrations = {k}
           /\ cancelRegistration(k.id, "approved").db.registrations
                 = {r, [k EXCEPT !.status = "cancelled"]}
    /\ \E p \in Procs :
          /\ calls[p].op = "cancelRegistration" /\ calls[p].pc = "done" /\ calls[p].flag
          /\ \E r \in registrations :
                r.id = calls[p].registration_id /\ r.status = "cancelled"

(* What the claim on deleteUser says about a user and the other tables.    *)
Referenced(uid) ==
    \/ \E s \in seminars : s.speaker_id = uid
    \/ \E r \in registrations : r.participant_id = uid
OnlyUsersDiffer(after) ==
    /\ after.seminars = seminars
    /\ after.registrations = registrations
    /\ after.attendance = attendance
    /\ after.certificates = certificates

(* C35: deleteUser returns true and removes exactly the user row with the  *)
(* given id when it exists, also when the user is a seminar's speaker or   *)
(* a registration's participant, and returns false and changes nothing     *)
(* when it does not exist; no other row of any table changes.              *)
C35_DeleteUserAlwaysRemoves ==
    \A uid \in UserIds :
        /\ deleteUser(uid).err = NoError
        /\ OnlyUsersDiffer(deleteUser(uid).db)
        /\ deleteUser(uid).db.users = {u \in users : u.id # uid}
        /\ deleteUser(uid).flag = UserExists(uid)

(* The seminar has as many approved or paid registrations as seats.        *)
Full(sid) == Cardinality(ApprovedOrPaid(sid)) >= CapacityOf(sid)

(* C36: createRegistration reports the first check that fails in the order *)
(* participant not found, participant role invalid, seminar not found,     *)
(* duplicate registration, capacity exceeded, whatever later checks would  *)
(* fail as well, and succeeds when none fails. A call in flight whose      *)
(* checks still hold ends as the call served alone.                        *)
C36_FirstFailingCheck ==
    /\ \A sid \in SeminarIds, pid \in UserIds, st \in registrationStatusEnum :
           LET err == createRegistration(sid, pid, st).err
           IN /\ ~UserExists(pid) => err = ParticipantNotFound
              /\ (UserExists(pid) /\ ~IsParticipant(pid)) => err = NotAParticipant
              /\ (IsParticipant(pid) /\ ~SeminarExists(sid)) => err = SeminarNotFound
              /\ (IsParticipant(pid) /\ SeminarExists(sid) /\ Registered(sid, pid))
                    => err = AlreadyRegistered
              /\ (IsParticipant(pid) /\ SeminarExists(sid) /\ ~Registered(sid, pid)
                  /\ Full(sid))
                    => err = AtCapacity
              /\ (IsParticipant(pid) /\ SeminarExists(sid) /\ ~Registered(sid, pid)
                  /\ ~Full(sid))
                    => err = NoError
    /\ createRegistrationAgrees

(* One seminar is gone and the other is full. An unresolved participant on *)
(* the missing seminar is reported as not found; a non-participant on the  *)
(* missing seminar and a registered user who lost the participant role are *)
(* reported for their role; a registered participant on the full seminar   *)
(* is reported as already registered.                                      *)
C36_Witness ==
    \E gone \in SeminarIds, full \in SeminarIds,
       n \in UserIds, s \in UserIds, x \in UserIds, d \in UserIds :
        /\ ~SeminarExists(gone)
        /\ SeminarExists(full) /\ Full(full)
        /\ ~UserExists(n)
        /\ createRegistration(gone, n, "pending").err = ParticipantNotFound
        /\ UserExists(s) /\ ~IsParticipant(s)
        /\ createRegistration(gone, s, "pending").err = NotAParticipant
        /\ UserExists(x) /\ ~IsParticipant(x) /\ Registered(full, x)
        /\ createRegistration(full, x, "pending").err = NotAParticipant
        /\ IsParticipant(d) /\ Registered(full, d)
        /\ createRegistration(full, d, "pending").err = AlreadyRegistered

(* C37: cancelRegistration leaves the store exactly as                     *)
(* updateRegistrationStatus with status cancelled leaves it, for every id  *)
(* and whatever status its own input carries; the two differ only in what  *)
(* they return: true / false against the updated registration / null.      *)
C37_CancelIsStatusUpdate ==
    \A rid \in RegistrationIds, st \in registrationStatusEnum :
        /\ cancelRegistration(rid, st).db
              = updateRegistrationStatus(rid, "cancelled").db
        /\ cancelRegistration(rid, st).err = NoError
        /\ updateRegistrationStatus(rid, "cancelled").err = NoError
        /\ cancelRegistration(rid, st).flag
              = (updateRegistrationStatus(rid, "cancelled").rows # NoRows)
        /\ cancelRegistration(rid, st).flag = RegistrationExists(rid)
        /\ \A row \in updateRegistrationStatus(rid, "cancelled").rows :
              /\ row.id = rid
              /\ row.status = "cancelled"
              /\ row \in cancelRegistration(rid, st).db.registrations

(* A call whose input says paid has cancelled the registration, which was  *)
(* approved again since; cancelling it once more leaves the store that the *)
(* status update to cancelled leaves, while an unresolved id gives false   *)
(* from the one and null from the other.                                   *)
C37_Witness ==
    /\ \E r \in registrations, n \in RegistrationIds :
           /\ r.status = "approved"
           /\ cancelRegistration(r.id, "paid").flag = TRUE
           /\ [r EXCEPT !.status = "cancelled"]
                 \in cancelRegistration(r.id, "paid").db.registrations
           /\ cancelRegistration(r.id, "paid").db
                 = updateRegistrationStatus(r.id, "cancelled").db
           /\ cancelRegistration(r.id, "paid").db # db
           /\ ~RegistrationExists(n)
           /\ cancelRegistration(n, "paid").flag = FALSE
           /\ updateRegistrationStatus(n, "cancelled").rows = NoRows
    /\ \E p \in Procs :
          /\ calls[p].op = "cancelRegistration" /\ calls[p].pc = "done"
          /\ calls[p].status = "paid" /\ calls[p].flag

(* C38: when updateAttendance finds an attendance row for the registration *)
(* it updates that row in place: id, registration_id and created_at stay,  *)
(* attended becomes the input's value and attendance_date the time the     *)
(* call took from the clock when it built the update, and the updated row  *)
(* is returned; no row is added, and the registrations, the certificates   *)
(* and the attendance rows of other registrations are as they were. For    *)
(* the call served alone that time is the time of the update; the update   *)
(* of a call in flight writes the time the call took after its lookup,     *)
(* which is not later than the clock, and a call in flight whose checks    *)
(* still hold ends as the call served alone that took that time.           *)
C38_UpdatesInPlace ==
    /\ \A rid \in RegistrationIds, flag \in BOOLEAN :
           (AttendanceOf(rid) # {} /\ updateAttendance(rid, flag).err = NoError)
           => /\ \A a \in AttendanceOf(rid) :
                    [a EXCEPT !.attended = flag, !.attendance_date = now]
                       \in updateAttendance(rid, flag).db.attendance
              /\ \E a \in AttendanceOf(rid) :
                    updateAttendance(rid, flag).rows
                       = {[a EXCEPT !.attended = flag, !.attendance_date = now]}
              /\ \A row \in updateAttendance(rid, flag).db.attendance :
                    \E a \in attendance :
                       /\ row.id = a.id
                       /\ row.registration_id = a.registration_id
                       /\ row.created_at = a.created_at
                       /\ a.registration_id # rid => row = a
              /\ Cardinality(updateAttendance(rid, flag).db.attendance)
                    = Cardinality(attendance)
              /\ updateAttendance(rid, flag).db.nextAttendanceId = nextAttendanceId
              /\ updateAttendance(rid, flag).db.registrations = registrations
              /\ updateAttendance(rid, flag).db.certificates = certificates
              /\ updateAttendance(rid, flag).db.seminars = seminars
              /\ updateAttendance(rid, flag).db.users = users
    /\ \A p \in Procs :
          (InFlight(p, "updateAttendance") /\ calls[p].pc = "update")
          => LET c == calls[p]
                 after == updateAttendanceStep(c)
             IN /\ c.stamp <= now
                /\ \A a \in AttendanceOf(c.registration_id) :
                      [a EXCEPT !.attended = c.attended,
                                !.attendance_date = c.stamp]
                         \in after.db.attendance
                /\ after.call.rows \subseteq after.db.attendance
                /\ \A row \in after.db.attendance :
                      \E a \in attendance :
                         /\ row.id = a.id
                         /\ row.registration_id = a.registration_id
                         /\ row.created_at = a.created_at
                         /\ a.registration_id # c.registration_id => row = a
                /\ Cardinality(after.db.attendance) = Cardinality(attendance)
                /\ after.db.registrations = registrations
                /\ after.db.certificates = certificates
    /\ updateAttendanceAgrees

(* Two registrations have their attendance rows, one of them also its      *)
(* certificate; a call has set that row to not attended after the clock    *)
(* advanced: the row kept its id and created_at and carries the time of    *)
(* the call, and doing so again leaves both rows. Another call is about to *)
(* update the row with a time it took before the clock advanced.           *)
C38_Witness ==
    \E a \in attendance, o \in attendance, p \in Procs, q \in Procs :
        /\ InFlight(q, "updateAttendance") /\ calls[q].pc = "update"
        /\ calls[q].registration_id = a.registration_id
        /\ calls[q].stamp < now
        /\ a.registration_id # o.registration_id
        /\ ~a.attended
        /\ a.created_at < a.attendance_date
        /\ calls[p].op = "updateAttendance" /\ calls[p].pc = "done"
        /\ calls[p].rows = {a}
        /\ CertificatesOf(a.registration_id) # {}
        /\ updateAttendance(a.registration_id, TRUE).db.attendance
              = {o, [a EXCEPT !.attended = TRUE, !.attendance_date = now]}
        /\ updateAttendance(a.registration_id, TRUE).db.certificates = certificates

(* C39: updateSeminar looks the seminar up before it validates the         *)
(* speaker: on a seminar id that resolves to nothing it returns null,      *)
(* throws nothing and changes nothing, also when the speaker_id given is   *)
(* unresolved or belongs to a user who is not a speaker. This holds of a   *)
(* call served alone and of the first statement of a call in flight, and a *)
(* call in flight whose checks still hold ends as the call served alone.   *)
C39_MissingSeminarBeforeSpeaker ==
    /\ \A sid \in SeminarIds :
           ~SeminarExists(sid)
           => \A uid \in Optional(UserIds), c \in Optional(Capacities),
                 k \in Optional(Nullable(Costs)),
                 ty \in Optional(registrationTypeEnum), payload \in BOOLEAN :
                 /\ updateSeminar(sid, uid, c, k, ty, payload).err = NoError
                 /\ updateSeminar(sid, uid, c, k, ty, payload).rows = NoRows
                 /\ updateSeminar(sid, uid, c, k, ty, payload).db = db
    /\ \A p \in Procs :
          /\ calls[p].op = "updateSeminar"
          /\ calls[p].pc = "seminar"
          /\ ~SeminarExists(calls[p].seminar_id)
          => /\ updateSeminarStep(calls[p]).call.pc = "done"
             /\ updateSeminarStep(calls[p]).call.err = NoError
             /\ updateSeminarStep(calls[p]).call.rows = NoRows
             /\ updateSeminarStep(calls[p]).db = db
    /\ updateSeminarAgrees

(* One seminar exists and one id resolves to nothing. An unresolved        *)
(* speaker and a participant as speaker are both refused on the existing   *)
(* seminar, and both give null on the unresolved one; a call in flight is  *)
(* about to look up the unresolved seminar with the unresolved speaker.    *)
C39_Witness ==
    \E here \in SeminarIds, gone \in SeminarIds, n \in UserIds, p \in UserIds :
        /\ SeminarExists(here)
        /\ ~SeminarExists(gone)
        /\ ~UserExists(n)
        /\ UserExists(p) /\ ~IsSpeaker(p)
        /\ updateSeminar(here, {n}, {}, {}, {}, FALSE).err = SpeakerDoesNotExist(n)
        /\ updateSeminar(here, {p}, {}, {}, {}, FALSE).err = NoSpeakerRole(p)
        /\ updateSeminar(gone, {n}, {}, {}, {}, FALSE).err = NoError
        /\ updateSeminar(gone, {n}, {}, {}, {}, FALSE).rows = NoRows
        /\ updateSeminar(gone, {p}, {}, {}, {}, FALSE).err = NoError
        /\ updateSeminar(gone, {p}, {}, {}, {}, FALSE).rows = NoRows
        /\ \E q \in Procs :
              /\ calls[q].op = "updateSeminar"
              /\ calls[q].pc = "seminar"
              /\ calls[q].seminar_id = gone
              /\ calls[q].speaker_id = {n}

(* C40: certificate rows are inserted only by generateCertificate and      *)
(* removed only by deleteSeminar: updateRegistrationStatus,                *)
(* cancelRegistration, updateAttendance, createRegistration and            *)
(* updateSeminar leave the certificates table as it is,                    *)
(* generateCertificate removes and changes none, deleteSeminar adds and    *)
(* changes none. This holds of the calls served alone and of every         *)
(* statement of a call in flight.                                          *)
C40_CertificatesPersist ==
    /\ \A rid \in RegistrationIds, st \in registrationStatusEnum :
          /\ updateRegistrationStatus(rid, st).db.certificates = certificates
          /\ cancelRegistration(rid, st).db.certificates = certificates
    /\ \A rid \in RegistrationIds, flag \in BOOLEAN :
          updateAttendance(rid, flag).db.certificates = certificates
    /\ \A sid \in SeminarIds, uid \in UserIds, st \in registrationStatusEnum :
          createRegistration(sid, uid, st).db.certificates = certificates
    /\ \A sid \in SeminarIds, uid \in Optional(UserIds),
          c \in Optional(Capacities), ty \in Optional(registrationTypeEnum),
          k \in Optional(Nullable(Costs)), payload \in BOOLEAN :
          updateSeminar(sid, uid, c, k, ty, payload).db.certificates = certificates
    /\ \A rid \in RegistrationIds :
          certificates \subseteq generateCertificate(rid).db.certificates
    /\ \A sid \in SeminarIds :
          deleteSeminar(sid).db.certificates \subseteq certificates
    /\ \A p \in Procs :
          calls[p].pc \notin {"idle", "done"}
          => \A d \in NextDatabases(p) :
                /\ calls[p].op # "generateCertificate"
                      => d.certificates \subseteq certificates
                /\ calls[p].op # "deleteSeminar"
                      => certificates \subseteq d.certificates

(* A certificate issued at an earlier time is still stored with its id and *)
(* URL although its registration has been cancelled and its attendance set *)
(* to false since, and the certificate of a rejected registration is       *)
(* stored as well.                                                         *)
C40_Witness ==
    \E c \in certificates, d \in certificates :
        /\ c.certificate_url.timestamp < now
        /\ c.certificate_url.registration_id = c.registration_id
        /\ StatusOf(c.registration_id) = "cancelled"
        /\ AttendanceOf(c.registration_id) # {}
        /\ ~MarkedAttended(c.registration_id)
        /\ StatusOf(d.registration_id) = "rejected"
====
